------------------------------ MODULE Spec2Model ------------------------------
(***************************************************************************)
(* Model of the trading decision server (src/server.js): the candle store  *)
(* fed by Binance kline events and historical backfill, the analysis       *)
(* stored beside it, the multi-exchange price aggregation and the exchange *)
(* connectors' reconnect scheduling.                                       *)
(*                                                                         *)
(* Numbers.  Prices and volumes are integers; a comparison the source      *)
(* writes with a decimal factor (x < y * 0.1) is written with both sides   *)
(* scaled to integers (10 * x < y), which is the same comparison over the  *)
(* reals.  NaN is a value of its own: arithmetic on it yields NaN and      *)
(* every ordering comparison with it is false, as in JavaScript.           *)
(***************************************************************************)
EXTENDS Integers, Sequences, FiniteSets, TLC

\* null where the source holds an object or null.
NULL == [isNull |-> TRUE]

\* null where the source holds a number or null.
NoNum == -777777

\* The result of parseFloat on a string that holds no number.
NaN == -999999

\* A raw kline field (a string on the wire) that holds no number.
BAD == -888888

\* parseFloat: the number a raw field denotes, NaN when it denotes none.
ParseFloat(raw) == IF raw = BAD THEN NaN ELSE raw

IsNaN(x) == x = NaN

Sub(a, b) == IF IsNaN(a) \/ IsNaN(b) THEN NaN ELSE a - b

Add(a, b) == IF IsNaN(a) \/ IsNaN(b) THEN NaN ELSE a + b

Mul(a, k) == IF IsNaN(a) THEN NaN ELSE a * k

Abs(a) == IF IsNaN(a) THEN NaN ELSE IF a < 0 THEN -a ELSE a

Max2(a, b) == IF IsNaN(a) \/ IsNaN(b) THEN NaN ELSE IF a > b THEN a ELSE b

Min2(a, b) == IF IsNaN(a) \/ IsNaN(b) THEN NaN ELSE IF a < b THEN a ELSE b

\* a < b, a > b, a <= b, a >= b in JavaScript: false when either side is NaN.
Lt(a, b) == ~IsNaN(a) /\ ~IsNaN(b) /\ a < b

Gt(a, b) == Lt(b, a)

Le(a, b) == ~IsNaN(a) /\ ~IsNaN(b) /\ a <= b

Ge(a, b) == Le(b, a)

\* Values the source computes by repeated division (moving averages, Wilder
\* smoothing) are held in fixed point, FP units to 1, each division rounded.
FP == 1000

\* x rounded to the nearest multiple of 1/d, as numerator: round(n / d), halves up.
RoundDiv(n, d) == IF n >= 0 THEN (2 * n + d) \div (2 * d) ELSE -((2 * (-n) + d - 1) \div (2 * d))

\* (n / d).toFixed(1) in tenths; Infinity (d = 0, n > 0) is written -1.
Ratio10(n, d) == IF d = 0 THEN -1 ELSE RoundDiv(10 * n, d)

-----------------------------------------------------------------------------
(***************************************************************************)
(* Candles and patterns.  A stored candle keeps the raw kline fields       *)
(* {t, o, h, l, c, v, isClosed}; the close time T is carried by the source *)
(* but read nowhere in the server and is left out.  A pattern's            *)
(* description is the tuple of its text parts (one part, or the parts      *)
(* around an interpolated number).                                         *)
(***************************************************************************)
Candle(t, o, h, l, c, v, x) == [t |-> t, o |-> o, h |-> h, l |-> l, c |-> c, v |-> v, isClosed |-> x]

Pattern(name, type, strength, description) ==
  [name |-> name, type |-> type, strength |-> strength, description |-> description]

\* The closes of the (at most three) candles before index idx (1-based), summed,
\* and their number: allCandles.slice(Math.max(0, index - 3), index).
RECURSIVE SumCloses(_, _, _)
SumCloses(all, from, to) ==
  IF from > to THEN 0 ELSE Add(ParseFloat(all[from].c), SumCloses(all, from + 1, to))

RECURSIVE SumVolumes(_, _, _)
SumVolumes(all, from, to) ==
  IF from > to THEN 0 ELSE Add(ParseFloat(all[from].v), SumVolumes(all, from + 1, to))

\* The single- and few-candle detectors of analyzeCandle, in the order the source
\* pushes their patterns.  idx is the 1-based position of candle in allCandles
\* (the source's index + 1).
AnalyzeBasic(candle, idx, allCandles) ==
  LET open == ParseFloat(candle.o)
      high == ParseFloat(candle.h)
      low == ParseFloat(candle.l)
      close == ParseFloat(candle.c)
      volume == ParseFloat(candle.v)
      bodySize == Abs(Sub(close, open))
      upperWick == Sub(high, Max2(open, close))
      lowerWick == Sub(Min2(open, close), low)
      totalRange == Sub(high, low)
      isBullish == Gt(close, open)
      index == idx - 1
      prev3 == SumCloses(allCandles, idx - 3, idx - 1)
      doji ==
        IF Lt(Mul(bodySize, 10), totalRange)
        THEN IF Gt(Mul(upperWick, 2), Mul(lowerWick, 5))
             THEN <<Pattern("Gravestone Doji", "bearish", "medium",
                            <<"Strong rejection from highs - bearish reversal signal">>)>>
             ELSE IF Gt(Mul(lowerWick, 2), Mul(upperWick, 5))
             THEN <<Pattern("Dragonfly Doji", "bullish", "medium",
                            <<"Strong rejection from lows - bullish reversal signal">>)>>
             ELSE <<Pattern("Doji", "neutral", "weak",
                            <<"Market indecision - wait for confirmation">>)>>
        ELSE <<>>
      hammer ==
        IF /\ Gt(lowerWick, Mul(bodySize, 2))
           /\ Lt(Mul(upperWick, 2), bodySize)
           /\ Gt(Mul(bodySize, 10), totalRange)
           /\ index >= 3
        THEN IF Lt(Mul(close, 3), prev3)
             THEN <<Pattern("Hammer", "bullish", "strong",
                            <<"Bullish reversal - buyers defended the low aggressively">>)>>
             ELSE <<Pattern("Hanging Man", "bearish", "medium",
                            <<"Warning signal after uptrend - potential reversal">>)>>
        ELSE <<>>
      star ==
        IF /\ Gt(upperWick, Mul(bodySize, 2))
           /\ Lt(Mul(lowerWick, 2), bodySize)
           /\ Gt(Mul(bodySize, 10), totalRange)
           /\ index >= 3
        THEN IF Gt(Mul(close, 3), prev3)
             THEN <<Pattern("Shooting Star", "bearish", "strong",
                            <<"Bearish reversal - sellers rejected the high aggressively">>)>>
             ELSE <<Pattern("Inverted Hammer", "bullish", "medium",
                            <<"Potential bullish reversal after downtrend">>)>>
        ELSE <<>>
      marubozu ==
        IF /\ Lt(Mul(upperWick, 20), totalRange)
           /\ Lt(Mul(lowerWick, 20), totalRange)
           /\ Gt(Mul(bodySize, 10), Mul(totalRange, 9))
        THEN IF isBullish
             THEN <<Pattern("Bullish Marubozu", "bullish", "strong",
                            <<"Strong buying pressure - bulls in full control">>)>>
             ELSE <<Pattern("Bearish Marubozu", "bearish", "strong",
                            <<"Strong selling pressure - bears in full control">>)>>
        ELSE <<>>
      engulfing ==
        IF index > 0
        THEN LET prev == allCandles[idx - 1]
                 prevOpen == ParseFloat(prev.o)
                 prevClose == ParseFloat(prev.c)
                 prevBody == Abs(Sub(prevClose, prevOpen))
                 prevBullish == Gt(prevClose, prevOpen)
             IN IF Gt(Mul(bodySize, 10), Mul(prevBody, 13))
                THEN (IF isBullish /\ ~prevBullish /\ Le(open, prevClose) /\ Ge(close, prevOpen)
                      THEN <<Pattern("Bullish Engulfing", "bullish", "strong",
                                     <<"Strong reversal signal - buyers overwhelmed sellers">>)>>
                      ELSE <<>>)
                     \o
                     (IF ~isBullish /\ prevBullish /\ Ge(open, prevClose) /\ Le(close, prevOpen)
                      THEN <<Pattern("Bearish Engulfing", "bearish", "strong",
                                     <<"Strong reversal signal - sellers overwhelmed buyers">>)>>
                      ELSE <<>>)
                ELSE <<>>
        ELSE <<>>
      stars ==
        IF index >= 2
        THEN LET c1o == ParseFloat(allCandles[idx - 2].o)
                 c1c == ParseFloat(allCandles[idx - 2].c)
                 c2o == ParseFloat(allCandles[idx - 1].o)
                 c2c == ParseFloat(allCandles[idx - 1].c)
                 c1Body == Abs(Sub(c1c, c1o))
                 c2Body == Abs(Sub(c2c, c2o))
             IN (IF /\ Lt(c1c, c1o)
                    /\ Lt(Mul(c2Body, 10), Mul(c1Body, 3))
                    /\ isBullish
                    /\ Gt(Mul(bodySize, 2), c1Body)
                 THEN <<Pattern("Morning Star", "bullish", "strong",
                                <<"3-candle bullish reversal - high probability setup">>)>>
                 ELSE <<>>)
                \o
                (IF /\ Gt(c1c, c1o)
                    /\ Lt(Mul(c2Body, 10), Mul(c1Body, 3))
                    /\ ~isBullish
                    /\ Gt(Mul(bodySize, 2), c1Body)
                 THEN <<Pattern("Evening Star", "bearish", "strong",
                                <<"3-candle bearish reversal - high probability setup">>)>>
                 ELSE <<>>)
        ELSE <<>>
      volumeSpike ==
        IF index >= 5
        THEN LET sumVolume == SumVolumes(allCandles, idx - 5, idx - 1)
             IN IF Gt(Mul(volume, 5), Mul(sumVolume, 2))
                THEN <<Pattern("High Volume", "confirmation", "strong",
                               <<"Volume", Ratio10(5 * volume, sumVolume), "x average - confirms the move">>)>>
                ELSE <<>>
        ELSE <<>>
  IN IF totalRange = 0 THEN <<>>
     ELSE doji \o hammer \o star \o marubozu \o engulfing \o stars \o volumeSpike

-----------------------------------------------------------------------------
(***************************************************************************)
(* TechnicalIndicators.  The data sequences handed to these operators are  *)
(* in fixed point (FP units to 1).                                         *)
(***************************************************************************)
Closes(candles) == [i \in 1..Len(candles) |-> Mul(ParseFloat(candles[i].c), FP)]

Highs(candles) == [i \in 1..Len(candles) |-> Mul(ParseFloat(candles[i].h), FP)]

Lows(candles) == [i \in 1..Len(candles) |-> Mul(ParseFloat(candles[i].l), FP)]

Volumes(candles) == [i \in 1..Len(candles) |-> ParseFloat(candles[i].v)]

HasNaN(data, from, to) == \E i \in from..to : IsNaN(data[i])

RECURSIVE SumRange(_, _, _)
SumRange(data, from, to) == IF from > to THEN 0 ELSE data[from] + SumRange(data, from + 1, to)

RECURSIVE MaxRange(_, _, _)
MaxRange(data, from, to) ==
  IF from = to THEN data[from] ELSE Max2(data[from], MaxRange(data, from + 1, to))

RECURSIVE MinRange(_, _, _)
MinRange(data, from, to) ==
  IF from = to THEN data[from] ELSE Min2(data[from], MinRange(data, from + 1, to))

\* null coerced to a number by a relational operator.
ToNumber(x) == IF x = NoNum THEN 0 ELSE x

SMA(data, period) ==
  LET n == Len(data)
  IN IF n < period THEN NoNum
     ELSE IF HasNaN(data, n - period + 1, n) THEN NaN
     ELSE RoundDiv(SumRange(data, n - period + 1, n), period)

\* The loops of this section run over data[from .. to] carrying a value; they
\* are cut in halves, the first half's result being evaluated (and seen not to
\* be NaN, which every later step would only hand on) before the second half
\* starts from it.
RECURSIVE EMAFrom(_, _, _, _, _)
EMAFrom(data, period, from, to, ema) ==
  IF from > to THEN ema
  ELSE IF from = to THEN ema + RoundDiv((data[from] - ema) * 2, period + 1)
  ELSE LET mid == (from + to) \div 2
           half == EMAFrom(data, period, from, mid, ema)
       IN IF IsNaN(half) THEN NaN ELSE EMAFrom(data, period, mid + 1, to, half)

EMA(data, period) ==
  IF Len(data) < period THEN NoNum
  ELSE IF HasNaN(data, 1, Len(data)) THEN NaN
  ELSE EMAFrom(data, period, period + 1, Len(data),
               RoundDiv(SumRange(data, 1, period), period))

RECURSIVE EMAArrayFrom(_, _, _, _, _)
\* The values EMAArray pushes for data[from .. to], ema being the last one
\* pushed before.
EMAArrayFrom(data, period, from, to, ema) ==
  IF from > to THEN <<>>
  ELSE IF from = to THEN <<ema + RoundDiv((data[from] - ema) * 2, period + 1)>>
  ELSE LET mid == (from + to) \div 2
           half == EMAArrayFrom(data, period, from, mid, ema)
       IN half \o EMAArrayFrom(data, period, mid + 1, to, half[Len(half)])

\* EMAArray on data free of NaN.
EMAArray(data, period) ==
  IF Len(data) < period THEN <<>>
  ELSE LET first == RoundDiv(SumRange(data, 1, period), period)
       IN <<first>> \o EMAArrayFrom(data, period, period + 1, Len(data), first)

RECURSIVE WilderAvg(_, _, _, _, _, _)
\* RSI's smoothing loop: the pair <<avgGain, avgLoss>> after closes[from .. to].
WilderAvg(closes, period, from, to, avgGain, avgLoss) ==
  IF from > to THEN <<avgGain, avgLoss>>
  ELSE IF from = to
  THEN LET change == closes[from] - closes[from - 1]
       IN IF change >= 0
          THEN <<RoundDiv(avgGain * (period - 1) + change, period),
                 RoundDiv(avgLoss * (period - 1), period)>>
          ELSE <<RoundDiv(avgGain * (period - 1), period),
                 RoundDiv(avgLoss * (period - 1) - change, period)>>
  ELSE LET mid == (from + to) \div 2
           half == WilderAvg(closes, period, from, mid, avgGain, avgLoss)
       IN IF IsNaN(half[1]) THEN <<NaN, NaN>>
          ELSE WilderAvg(closes, period, mid + 1, to, half[1], half[2])

RECURSIVE SumGains(_, _, _)
SumGains(closes, from, to) ==
  IF from > to THEN 0
  ELSE (IF closes[from] - closes[from - 1] >= 0 THEN closes[from] - closes[from - 1] ELSE 0)
       + SumGains(closes, from + 1, to)

RECURSIVE SumLosses(_, _, _)
SumLosses(closes, from, to) ==
  IF from > to THEN 0
  ELSE (IF closes[from] - closes[from - 1] >= 0 THEN 0 ELSE closes[from - 1] - closes[from])
       + SumLosses(closes, from + 1, to)

\* RSI in tenths (0 .. 1000).
RSI(closes, period) ==
  IF Len(closes) < period + 1 THEN NoNum
  ELSE IF HasNaN(closes, 1, Len(closes)) THEN NaN
  ELSE LET avg == WilderAvg(closes, period, period + 2, Len(closes),
                            RoundDiv(SumGains(closes, 2, period + 1), period),
                            RoundDiv(SumLosses(closes, 2, period + 1), period))
           avgGain == avg[1]
           avgLoss == avg[2]
       IN IF avgLoss = 0 THEN 1000
          ELSE RoundDiv(1000 * avgGain, avgGain + avgLoss)

MACD(closes) ==
  IF Len(closes) < 26 + 9 THEN NULL
  ELSE IF HasNaN(closes, 1, Len(closes))
  THEN [macd |-> NaN, signal |-> NaN, histogram |-> NaN, trend |-> "neutral"]
  ELSE LET fastEMA == EMAArray(closes, 12)
           slowEMA == EMAArray(closes, 26)
           macdLine == [i \in 1..Len(slowEMA) |-> fastEMA[i + 14] - slowEMA[i]]
           signalLine == EMAArray(macdLine, 9)
           macd == macdLine[Len(macdLine)]
           signal == signalLine[Len(signalLine)]
       IN [macd |-> macd, signal |-> signal, histogram |-> macd - signal,
           trend |-> IF macd > signal /\ macd > 0 THEN "bullish"
                     ELSE IF macd < signal /\ macd < 0 THEN "bearish"
                     ELSE IF macd > signal THEN "bullish_crossover"
                     ELSE IF macd < signal THEN "bearish_crossover"
                     ELSE "neutral"]

\* %K at position i (1-based), in fixed point.
StochK(highs, lows, closes, i) ==
  LET highestHigh == MaxRange(highs, i - 13, i)
      lowestLow == MinRange(lows, i - 13, i)
  IN IF IsNaN(highestHigh) \/ IsNaN(lowestLow) \/ IsNaN(closes[i]) THEN NaN
     ELSE IF highestHigh = lowestLow THEN 50 * FP
     ELSE RoundDiv((closes[i] - lowestLow) * 100, (highestHigh - lowestLow) \div FP)

\* Only the last three %K values are read (%D and the signal).
Stochastic(highs, lows, closes) ==
  IF Len(closes) < 14 + 3 THEN NULL
  ELSE LET n == Len(closes)
           k1 == StochK(highs, lows, closes, n - 2)
           k2 == StochK(highs, lows, closes, n - 1)
           kValue == StochK(highs, lows, closes, n)
           sum == Add(Add(k1, k2), kValue)
           dValue == IF IsNaN(sum) THEN NaN ELSE RoundDiv(sum, 3)
       IN [k |-> kValue, d |-> dValue,
           signal |-> IF Gt(kValue, 80 * FP) /\ Lt(kValue, dValue) THEN "overbought_reversal"
                      ELSE IF Lt(kValue, 20 * FP) /\ Gt(kValue, dValue) THEN "oversold_reversal"
                      ELSE IF Gt(kValue, 80 * FP) THEN "overbought"
                      ELSE IF Lt(kValue, 20 * FP) THEN "oversold"
                      ELSE IF Gt(kValue, dValue) THEN "bullish"
                      ELSE "bearish"]

\* The true range of bar i (i >= 2).
TrueRange(highs, lows, closes, i) ==
  Max2(Max2(Sub(highs[i], lows[i]), Abs(Sub(highs[i], closes[i - 1]))),
       Abs(Sub(lows[i], closes[i - 1])))

PlusDM(highs, lows, i) ==
  LET upMove == Sub(highs[i], highs[i - 1])
      downMove == Sub(lows[i - 1], lows[i])
  IN IF Gt(upMove, downMove) /\ Gt(upMove, 0) THEN upMove ELSE 0

MinusDM(highs, lows, i) ==
  LET upMove == Sub(highs[i], highs[i - 1])
      downMove == Sub(lows[i - 1], lows[i])
  IN IF Gt(downMove, upMove) /\ Gt(downMove, 0) THEN downMove ELSE 0

RECURSIVE WilderFrom(_, _, _, _, _)
WilderFrom(data, period, from, to, sum) ==
  IF from > to THEN sum
  ELSE IF from = to THEN sum - RoundDiv(sum, period) + data[from]
  ELSE LET mid == (from + to) \div 2
           half == WilderFrom(data, period, from, mid, sum)
       IN IF IsNaN(half) THEN NaN ELSE WilderFrom(data, period, mid + 1, to, half)

wilderSmooth(data, period) ==
  IF Len(data) < period THEN 0
  ELSE IF HasNaN(data, 1, Len(data)) THEN NaN
  ELSE WilderFrom(data, period, period + 1, Len(data), SumRange(data, 1, period))

\* ADX: the adx, plusDI and minusDI values are quotients of the three smoothed
\* sums; the record keeps the sums and the two classifications read downstream.
ADX(highs, lows, closes) ==
  IF Len(closes) < 14 * 2 THEN NULL
  ELSE LET n == Len(closes)
           smoothTR == wilderSmooth([i \in 1..(n - 1) |-> TrueRange(highs, lows, closes, i + 1)], 14)
           smoothPlusDM == wilderSmooth([i \in 1..(n - 1) |-> PlusDM(highs, lows, i + 1)], 14)
           smoothMinusDM == wilderSmooth([i \in 1..(n - 1) |-> MinusDM(highs, lows, i + 1)], 14)
           \* x / smoothTR is NaN for NaN or 0 / 0, and both DI are 0 or NaN together
           defined == ~IsNaN(smoothTR) /\ smoothTR # 0 /\ smoothPlusDM + smoothMinusDM # 0
           diff == Abs(smoothPlusDM - smoothMinusDM)
           total == smoothPlusDM + smoothMinusDM
       IN [smoothTR |-> smoothTR, smoothPlusDM |-> smoothPlusDM, smoothMinusDM |-> smoothMinusDM,
           trend |-> IF defined /\ 100 * diff > 50 * total THEN "very_strong"
                     ELSE IF defined /\ 100 * diff > 25 * total THEN "strong"
                     ELSE IF defined /\ 100 * diff > 20 * total THEN "moderate"
                     ELSE "weak",
           direction |-> IF defined /\ smoothPlusDM > smoothMinusDM THEN "bullish"
                         ELSE IF defined /\ smoothMinusDM > smoothPlusDM THEN "bearish"
                         ELSE "neutral"]

RECURSIVE SumSqDev(_, _, _, _)
\* The sum over data[from..to] of (20 * x - s)^2, on whole (not fixed point) values.
SumSqDev(data, from, to, s) ==
  IF from > to THEN 0
  ELSE (20 * (data[from] \div FP) - s) * (20 * (data[from] \div FP) - s)
       + SumSqDev(data, from + 1, to, s)

\* BollingerBands(closes, 20, 2).  With x = price - sma and sd the deviation,
\* percentB = (x + 2 sd) / (4 sd), and its thresholds compare x with a multiple
\* of sd; they are decided exactly on d = 20 x and q = 8000 sd^2.
BollingerBands(closes) ==
  IF Len(closes) < 20 THEN NULL
  ELSE LET n == Len(closes)
       IN IF HasNaN(closes, n - 19, n) THEN [middle |-> NaN, signal |-> "neutral"]
          ELSE LET s == SumRange(closes, n - 19, n) \div FP
                   d == 20 * (closes[n] \div FP) - s
                   q == SumSqDev(closes, n - 19, n, s)
               IN [middle |-> SMA(closes, 20),
                   signal |-> IF q = 0 THEN "neutral"
                              ELSE IF d > 0 /\ 5 * d * d > q THEN "overbought"
                              ELSE IF d < 0 /\ 5 * d * d > q THEN "oversold"
                              ELSE IF d > 0 /\ 125 * d * d > 9 * q THEN "upper_zone"
                              ELSE IF d < 0 /\ 125 * d * d > 9 * q THEN "lower_zone"
                              ELSE "neutral"]

RECURSIVE ATRFrom(_, _, _, _, _)
ATRFrom(trueRanges, period, from, to, atr) ==
  IF from > to THEN atr
  ELSE IF from = to THEN RoundDiv(atr * (period - 1) + trueRanges[from], period)
  ELSE LET mid == (from + to) \div 2
           half == ATRFrom(trueRanges, period, from, mid, atr)
       IN IF IsNaN(half) THEN NaN ELSE ATRFrom(trueRanges, period, mid + 1, to, half)

ATR(highs, lows, closes) ==
  IF Len(closes) < 14 + 1 THEN NULL
  ELSE LET n == Len(closes)
           trueRanges == [i \in 1..(n - 1) |-> TrueRange(highs, lows, closes, i + 1)]
       IN IF HasNaN(trueRanges, 1, n - 1) THEN [atr |-> NaN, volatility |-> "low"]
          ELSE LET atr == ATRFrom(trueRanges, 14, 15, n - 1, RoundDiv(SumRange(trueRanges, 1, 14), 14))
                   price == closes[n]
                   \* atr / price * 100 > k
                   above(k2) == \/ price > 0 /\ 200 * atr > k2 * price
                                \/ price = 0 /\ atr > 0
               IN [atr |-> atr,
                   volatility |-> IF above(10) THEN "very_high"
                                  ELSE IF above(6) THEN "high"
                                  ELSE IF above(3) THEN "moderate"
                                  ELSE "low"]

RECURSIVE OBVArray(_, _, _, _, _)
\* The values OBV pushes for closes[from .. to], obv being the last one pushed
\* before.
OBVArray(closes, volumes, from, to, obv) ==
  IF from > to THEN <<>>
  ELSE IF from = to
  THEN <<IF Gt(closes[from], closes[from - 1]) THEN Add(obv, volumes[from])
         ELSE IF Lt(closes[from], closes[from - 1]) THEN Sub(obv, volumes[from])
         ELSE obv>>
  ELSE LET mid == (from + to) \div 2
           half == OBVArray(closes, volumes, from, mid, obv)
       IN half \o OBVArray(closes, volumes, mid + 1, to, half[Len(half)])

RECURSIVE SumXY(_, _, _)
\* The sum of x * values[from + x] for x = i .. n - 1 (x counts from 0).
SumXY(values, from, i) ==
  IF from + i > Len(values) THEN 0 ELSE i * values[from + i] + SumXY(values, from, i + 1)

RECURSIVE MaxAbs(_, _, _)
MaxAbs(values, from, to) ==
  IF from > to THEN 0 ELSE Max2(Abs(values[from]), MaxAbs(values, from + 1, to))

\* OBV.  With n values, each divided by their largest magnitude m, the slope is
\* (n sxy - sx sy) / ((n sx2 - sx sx) m); it is compared with +-0.1.
OBV(closes, volumes) ==
  IF Len(closes) < 2 THEN NULL
  ELSE LET obvArray == <<0>> \o OBVArray(closes, volumes, 2, Len(closes), 0)
           len == Len(obvArray)
           from == IF len > 10 THEN len - 9 ELSE 1
           n == len - from + 1
           obv == obvArray[len]
       IN IF HasNaN(obvArray, from, len) THEN [obv |-> obv, trend |-> "neutral"]
          ELSE LET maxVal == IF MaxAbs(obvArray, from, len) = 0 THEN 1
                             ELSE MaxAbs(obvArray, from, len)
                   sumX == (n * (n - 1)) \div 2
                   sumX2 == ((n - 1) * n * (2 * n - 1)) \div 6
                   num == n * SumXY(obvArray, from, 0) - sumX * SumRange(obvArray, from, len)
                   den == (n * sumX2 - sumX * sumX) * maxVal
               IN [obv |-> obv,
                   trend |-> IF 10 * num > den THEN "accumulation"
                             ELSE IF 10 * num < -den THEN "distribution"
                             ELSE "neutral"]

\* The votes of generateSummary: 1 pushes a bullish signal, -1 a bearish one.
VoteRsi(rsi) == IF Lt(rsi, 300) THEN 1 ELSE IF Gt(rsi, 700) THEN -1 ELSE 0

VoteMacd(macd) ==
  IF macd = NULL THEN 0
  ELSE IF macd.trend \in {"bullish", "bullish_crossover"} THEN 1
  ELSE IF macd.trend \in {"bearish", "bearish_crossover"} THEN -1 ELSE 0

VoteStoch(stoch) ==
  IF stoch = NULL THEN 0
  ELSE IF stoch.signal = "oversold_reversal" THEN 1
  ELSE IF stoch.signal = "overbought_reversal" THEN -1 ELSE 0

VoteAdx(adx) ==
  IF adx = NULL THEN 0
  ELSE IF adx.direction = "bullish" /\ adx.trend # "weak" THEN 1
  ELSE IF adx.direction = "bearish" /\ adx.trend # "weak" THEN -1 ELSE 0

VoteBb(bb) ==
  IF bb = NULL THEN 0
  ELSE IF bb.signal = "oversold" THEN 1
  ELSE IF bb.signal = "overbought" THEN -1 ELSE 0

VoteEma(ema20, ema50) == IF Gt(ema20, ema50) THEN 1 ELSE IF Lt(ema20, ema50) THEN -1 ELSE 0

\* A sentiment that asks for 60% of the votes.
SentimentAt60(bullishSignals, bearishSignals) ==
  IF bullishSignals + bearishSignals = 0 THEN "NEUTRAL"
  ELSE IF 10 * bullishSignals > 6 * (bullishSignals + bearishSignals) THEN "BULLISH"
  ELSE IF 10 * bullishSignals < 4 * (bullishSignals + bearishSignals) THEN "BEARISH"
  ELSE "MIXED"

\* The sentiment for the two signal counts.
Sentiment(bullishSignals, bearishSignals) ==
  IF bullishSignals + bearishSignals = 0 THEN "NEUTRAL"
  ELSE IF 10 * bullishSignals > 7 * (bullishSignals + bearishSignals) THEN "BULLISH"
  ELSE IF 10 * bullishSignals < 3 * (bullishSignals + bearishSignals) THEN "BEARISH"
  ELSE "MIXED"

SummaryRecord(sentiment, bullishSignals, bearishSignals) ==
  [sentiment |-> sentiment,
   bullishSignals |-> bullishSignals,
   bearishSignals |-> bearishSignals,
   strength |-> << IF sentiment = "BULLISH" THEN bullishSignals
                   ELSE IF sentiment = "BEARISH" THEN bearishSignals
                   ELSE IF sentiment = "MIXED"
                        THEN (IF bullishSignals > bearishSignals THEN bullishSignals
                              ELSE bearishSignals)
                   ELSE 0,
                   IF bullishSignals + bearishSignals = 0 THEN 1
                   ELSE bullishSignals + bearishSignals >>,
   recommendation |-> IF sentiment = "BULLISH" THEN "Consider LONG"
                      ELSE IF sentiment = "BEARISH" THEN "Consider SHORT"
                      ELSE "Wait for clarity"]

SummaryOf(bullishSignals, bearishSignals) ==
  SummaryRecord(Sentiment(bullishSignals, bearishSignals), bullishSignals, bearishSignals)

SummaryOfVotes(votes) ==
  SummaryOf(Cardinality({i \in 1..Len(votes) : votes[i] = 1}),
            Cardinality({i \in 1..Len(votes) : votes[i] = -1}))

generateSummary(closes, highs, lows) ==
  SummaryOfVotes(<< VoteRsi(ToNumber(RSI(closes, 14))),
                    VoteMacd(MACD(closes)),
                    VoteStoch(Stochastic(highs, lows, closes)),
                    VoteAdx(ADX(highs, lows, closes)),
                    VoteBb(BollingerBands(closes)),
                    VoteEma(ToNumber(EMA(closes, 20)), ToNumber(EMA(closes, 50))) >>)

\* A calculateAll that asks for 29 candles.
calculateAllFrom29(candles) ==
  IF Len(candles) < 29 THEN NULL
  ELSE LET closes == Closes(candles)
           highs == Highs(candles)
           lows == Lows(candles)
           volumes == Volumes(candles)
       IN [rsi |-> RSI(closes, 14),
           macd |-> MACD(closes),
           stochastic |-> Stochastic(highs, lows, closes),
           ema20 |-> EMA(closes, 20),
           ema50 |-> EMA(closes, 50),
           sma20 |-> SMA(closes, 20),
           adx |-> ADX(highs, lows, closes),
           bollingerBands |-> BollingerBands(closes),
           atr |-> ATR(highs, lows, closes),
           obv |-> OBV(closes, volumes),
           summary |-> generateSummary(closes, highs, lows)]

\* calculateAll.  The volume profile and the Elliott wave of the snapshot are
\* not carried: nothing in the server reads them back.
calculateAll(candles) ==
  IF Len(candles) < 30 THEN NULL
  ELSE LET closes == Closes(candles)
           highs == Highs(candles)
           lows == Lows(candles)
           volumes == Volumes(candles)
       IN [rsi |-> RSI(closes, 14),
           macd |-> MACD(closes),
           stochastic |-> Stochastic(highs, lows, closes),
           ema20 |-> EMA(closes, 20),
           ema50 |-> EMA(closes, 50),
           sma20 |-> SMA(closes, 20),
           adx |-> ADX(highs, lows, closes),
           bollingerBands |-> BollingerBands(closes),
           atr |-> ATR(highs, lows, closes),
           obv |-> OBV(closes, volumes),
           summary |-> generateSummary(closes, highs, lows)]

-----------------------------------------------------------------------------
(***************************************************************************)
(* PatternRecognizer.generateDecision.  Price levels of a decision are in  *)
(* hundredths (the source reports them with toFixed(2)); they are computed *)
(* in units of 1/4000, in which entry, stop-loss, risk and the three       *)
(* targets are whole numbers, and rounded at the end.                      *)
(***************************************************************************)
NoStr == "null"

\* The prices of a candle are whole numbers of 1/unit: of 1, unless the candle
\* says otherwise (an instrument quoted with more decimals than two).
PriceUnit(candle) == IF "unit" \in DOMAIN candle THEN candle.unit ELSE 1

\* A rounding to one decimal, in hundredths.
ToFixed1(u, unit) == IF IsNaN(u) THEN NaN ELSE 10 * RoundDiv(u, 400 * unit)

\* parseFloat(x.toFixed(2)) of a value in 1/(4000 * unit), in hundredths.
ToFixed2(u, unit) == IF IsNaN(u) THEN NaN ELSE RoundDiv(u, 40 * unit)

getIndicatorSignals(indicators) ==
  IF indicators = NULL THEN NULL
  ELSE [rsi |-> IF indicators.rsi # NoNum
                THEN [value |-> indicators.rsi,
                      signal |-> IF Lt(indicators.rsi, 300) THEN "oversold"
                                 ELSE IF Gt(indicators.rsi, 700) THEN "overbought"
                                 ELSE "neutral"]
                ELSE NULL,
        macd |-> IF indicators.macd # NULL
                 THEN [trend |-> indicators.macd.trend, histogram |-> indicators.macd.histogram]
                 ELSE NULL,
        stochastic |-> indicators.stochastic,
        adx |-> IF indicators.adx # NULL
                THEN [trend |-> indicators.adx.trend, direction |-> indicators.adx.direction]
                ELSE NULL,
        bollingerBands |-> IF indicators.bollingerBands # NULL
                           THEN [signal |-> indicators.bollingerBands.signal]
                           ELSE NULL,
        obv |-> IF indicators.obv # NULL THEN [trend |-> indicators.obv.trend] ELSE NULL,
        summary |-> indicators.summary]

\* patterns.some(p => p.type === type), whatever the strength.
HasType(patterns, type, strength) ==
  \E i \in 1..Len(patterns) : patterns[i].type = type

HasPattern(patterns, type, strength) ==
  \E i \in 1..Len(patterns) : patterns[i].type = type /\ patterns[i].strength = strength

\* patterns.find(p => p.type === type)?.description || fallback
FirstDescription(patterns, type, fallback) ==
  IF \E i \in 1..Len(patterns) : patterns[i].type = type
  THEN patterns[CHOOSE i \in 1..Len(patterns) :
                  /\ patterns[i].type = type
                  /\ \A j \in 1..(i - 1) : patterns[j].type # type].description
  ELSE <<fallback>>

\* A decision without patterns that reports a bias whenever there is a summary.
noPatternBias(summary, signals) ==
  IF summary # NULL
  THEN [action |-> "WAIT", confidence |-> "low",
        entry |-> NoNum, stopLoss |-> NoNum, target1 |-> NoNum, target2 |-> NoNum,
        riskReward |-> NoStr,
        reasoning |-> <<<<"No clear candlestick pattern">>,
                        <<"Indicators suggest bias", summary.sentiment, summary.strength>>,
                        <<summary.recommendation>>>>,
        indicatorSignals |-> signals]
  ELSE [action |-> "WAIT", confidence |-> "none",
        entry |-> NoNum, stopLoss |-> NoNum, target1 |-> NoNum, target2 |-> NoNum,
        riskReward |-> NoStr,
        reasoning |-> <<<<"No clear pattern detected">>, <<"Wait for setup">>>>,
        indicatorSignals |-> signals]

\* generateDecision without patterns: the indicator summary (NULL: none) may
\* still give a bias.
noPatternDecision(summary, signals) ==
  IF summary # NULL /\ summary.sentiment \notin {"NEUTRAL", "MIXED"}
  THEN [action |-> "WAIT", confidence |-> "low",
        entry |-> NoNum, stopLoss |-> NoNum, target1 |-> NoNum, target2 |-> NoNum,
        riskReward |-> NoStr,
        reasoning |-> <<<<"No clear candlestick pattern">>,
                        <<"Indicators suggest bias", summary.sentiment, summary.strength>>,
                        <<summary.recommendation>>>>,
        indicatorSignals |-> signals]
  ELSE [action |-> "WAIT", confidence |-> "none",
        entry |-> NoNum, stopLoss |-> NoNum, target1 |-> NoNum, target2 |-> NoNum,
        riskReward |-> NoStr,
        reasoning |-> <<<<"No clear pattern detected">>, <<"Wait for setup">>>>,
        indicatorSignals |-> signals]

\* The decision for the patterns and the latest candle, given the indicator
\* snapshot of the series (NULL below 30 candles).
decisionFor(patterns, candle, indicators) ==
  LET summary == IF indicators = NULL THEN NULL ELSE indicators.summary
      sentiment == IF summary = NULL THEN NoStr ELSE summary.sentiment
      unit == PriceUnit(candle)
      high == ParseFloat(candle.h)
      low == ParseFloat(candle.l)
      range == Sub(high, low)
      strongBullish == HasPattern(patterns, "bullish", "strong")
      strongBearish == HasPattern(patterns, "bearish", "strong")
      hasVolumeConfirm == \E i \in 1..Len(patterns) : patterns[i].name = "High Volume"
      mediumBullish == HasPattern(patterns, "bullish", "medium")
      mediumBearish == HasPattern(patterns, "bearish", "medium")
      indicatorBoost ==
        \/ (strongBullish \/ mediumBullish) /\ sentiment = "BULLISH"
        \/ /\ ~((strongBullish \/ mediumBullish) /\ sentiment = "BULLISH")
           /\ (strongBearish \/ mediumBearish) /\ sentiment = "BEARISH"
      indicatorConflict ==
        /\ ~indicatorBoost
        /\ \/ (strongBullish \/ mediumBullish) /\ sentiment = "BEARISH"
           \/ (strongBearish \/ mediumBearish) /\ sentiment = "BULLISH"
      signals == getIndicatorSignals(indicators)
      hasAtr == indicators # NULL /\ indicators.atr # NULL
      atr6 == IF hasAtr THEN Mul(indicators.atr.atr, 6) ELSE 0
      downgrade(c) == IF indicatorConflict THEN (IF c = "high" THEN "medium" ELSE "low") ELSE c
      confidenceOf(strong, medium) ==
        downgrade(IF strong /\ hasVolumeConfirm /\ indicatorBoost THEN "high"
                  ELSE IF strong /\ (hasVolumeConfirm \/ indicatorBoost) THEN "high"
                  ELSE IF strong THEN "medium"
                  ELSE IF medium /\ (hasVolumeConfirm \/ indicatorBoost) THEN "medium"
                  ELSE "low")
      volumeNote == IF hasVolumeConfirm THEN <<"Volume confirms the move">>
                    ELSE <<"Wait for volume confirmation">>
      riskNote(risk, entry) ==
        <<"Risk", IF IsNaN(risk) \/ IsNaN(entry) \/ entry \div 10 = 0 THEN NaN
                  ELSE RoundDiv(1000 * risk, entry \div 10), "% to stop loss">>
      indicatorNotes(dir, against) ==
        IF indicators = NULL THEN <<>>
        ELSE LET rsi == indicators.rsi
                 good == IF dir = "bullish" THEN Lt(rsi, 300) ELSE Gt(rsi, 700)
                 caution == IF dir = "bullish" THEN Gt(rsi, 700) ELSE Lt(rsi, 300)
                 zone(lowSide) == IF lowSide THEN "oversold" ELSE "overbought"
             IN (IF indicatorBoost THEN <<<<"Indicators align with signal", dir>>>> ELSE <<>>)
                \o (IF indicatorConflict
                    THEN <<<<"Indicators show conflicting signals", against>>>> ELSE <<>>)
                \o (IF rsi # NoNum /\ good
                    THEN <<<<"RSI", zone(dir = "bullish"), rsi, "good entry">>>>
                    ELSE IF rsi # NoNum /\ caution
                    THEN <<<<"RSI", zone(dir # "bullish"), rsi, "caution">>>>
                    ELSE <<>>)
                \o (IF indicators.macd # NULL /\ indicators.macd.trend = (IF dir = "bullish" THEN "bullish_crossover"
                                                                             ELSE "bearish_crossover")
                    THEN <<<<"MACD crossover", dir>>>> ELSE <<>>)
      long ==
        LET entry == Add(Mul(high, 4000), Mul(range, 40))
            stopLoss == IF hasAtr THEN Sub(Mul(low, 4000), atr6)
                        ELSE Sub(Mul(low, 4000), Mul(range, 600))
            risk == Sub(entry, stopLoss)
            half == IF IsNaN(risk) THEN NaN ELSE risk \div 2
        IN [action |-> "LONG",
            confidence |-> confidenceOf(strongBullish, mediumBullish),
            entry |-> ToFixed2(entry, unit),
            stopLoss |-> ToFixed2(stopLoss, unit),
            target1 |-> ToFixed2(Add(entry, Mul(half, 3)), unit),
            target2 |-> ToFixed2(Add(entry, Mul(half, 5)), unit),
            target3 |-> ToFixed2(Add(entry, Mul(risk, 4)), unit),
            riskReward |-> "1:2.5",
            reasoning |-> <<FirstDescription(patterns, "bullish", "Bullish pattern detected"),
                            volumeNote>>
                          \o indicatorNotes("bullish", "bearish")
                          \o <<<<"Entry: Break above candle high">>, riskNote(risk, entry)>>,
            indicatorSignals |-> signals]
      short ==
        LET entry == Sub(Mul(low, 4000), Mul(range, 40))
            stopLoss == IF hasAtr THEN Add(Mul(high, 4000), atr6)
                        ELSE Add(Mul(high, 4000), Mul(range, 600))
            risk == Sub(stopLoss, entry)
            half == IF IsNaN(risk) THEN NaN ELSE risk \div 2
        IN [action |-> "SHORT",
            confidence |-> confidenceOf(strongBearish, mediumBearish),
            entry |-> ToFixed2(entry, unit),
            stopLoss |-> ToFixed2(stopLoss, unit),
            target1 |-> ToFixed2(Sub(entry, Mul(half, 3)), unit),
            target2 |-> ToFixed2(Sub(entry, Mul(half, 5)), unit),
            target3 |-> ToFixed2(Sub(entry, Mul(risk, 4)), unit),
            riskReward |-> "1:2.5",
            reasoning |-> <<FirstDescription(patterns, "bearish", "Bearish pattern detected"),
                            volumeNote>>
                          \o indicatorNotes("bearish", "bullish")
                          \o <<<<"Entry: Break below candle low">>, riskNote(risk, entry)>>,
            indicatorSignals |-> signals]
  IN IF Len(patterns) = 0
     THEN noPatternDecision(summary, signals)
     ELSE IF strongBullish \/ (mediumBullish /\ hasVolumeConfirm) \/ (mediumBullish /\ indicatorBoost)
     THEN long
     ELSE IF strongBearish \/ (mediumBearish /\ hasVolumeConfirm) \/ (mediumBearish /\ indicatorBoost)
     THEN short
     ELSE [action |-> "WAIT", confidence |-> "low",
           entry |-> NoNum, stopLoss |-> NoNum,
           target1 |-> NoNum, target2 |-> NoNum, target3 |-> NoNum,
           riskReward |-> NoStr,
           reasoning |-> <<<<"Pattern detected but not strong enough">>,
                           <<"Wait for confirmation or stronger setup">>>>
                         \o (IF summary # NULL
                             THEN <<<<"Indicator sentiment", sentiment, summary.strength>>>>
                             ELSE <<>>),
           indicatorSignals |-> signals]

generateDecision(patterns, candle, allCandles) ==
  decisionFor(patterns, candle,
              IF Len(allCandles) >= 30 THEN calculateAll(allCandles) ELSE NULL)

\* An analyzeCandle that looks at closed candles only.
analyzeClosedCandle(candle, idx, allCandles) ==
  IF candle.isClosed THEN AnalyzeBasic(candle, idx, allCandles) ELSE <<>>

\* analyzeCandle.  Positions are 1-based: idx is the source's index + 1.  The
\* patterns are those of the candlestick detectors; the multi-bar chart
\* detectors that follow them in the source (double top and bottom, head and
\* shoulders, wedges, V reversal) are not carried.
analyzeCandle(candle, idx, allCandles) == AnalyzeBasic(candle, idx, allCandles)

-----------------------------------------------------------------------------
(***************************************************************************)
(* The data store and the Binance kline path.                              *)
(***************************************************************************)
VARIABLES
  candles,        \* dataStore.candles: key -> series
  patterns,       \* dataStore.patterns: key -> latest patterns
  decisions,      \* dataStore.decisions: key -> latest decision or NULL
  indicators,     \* dataStore.indicators: key -> latest snapshot or NULL
  fetches,        \* key -> number of fetchHistoricalCandles calls awaiting httpsGet
  cache,          \* the Redis entry of each key (<<>> when absent)
  redisConnected, \* USE_REDIS && redisConnected
  loader,         \* the position of a running fetchAllHistoricalData
  ws,             \* exchange -> state of its socket
  timer,          \* exchange -> its reconnect timeout (delay, or NoNum when none is pending)
  attempts,       \* exchange -> closes of its socket since it was last open
  exchangePrices, \* dataStore.exchangePrices: exchange -> display name -> price
  tickers,        \* dataStore.tickers: display name -> ticker
  handled,        \* observation: the kline message the last step handled (NoEvent: none)
  live,           \* observation: key -> open times of the entries live events wrote
  plain,          \* observation: key -> the series had the cache never been read
  process,        \* "running" until process.exit
  clients,        \* the Set clients, in insertion order
  readyState,     \* client connection -> readyState of its socket ("none": not connected)
  sent,           \* observation: client connection -> the first message types sent to it
  delivery        \* observation: the sends of the last step, failed sends, open requests

\* dataStore's candle side, with the record of what live events wrote into it.
storeVars == <<candles, patterns, decisions, indicators, live>>

backfillVars == <<fetches, cache, redisConnected, loader>>

connVars == <<ws, timer, attempts>>

aggVars == <<exchangePrices, tickers>>

clientVars == <<clients, readyState, sent, delivery>>

NoEvent == [isNull |-> TRUE]

\* Nothing runs once the process has exited.
Running == process = "running"

\* The client connections followed, and the length up to which the messages
\* sent on a connection are recorded.
ClientIds == {1, 2}

MaxSent == 2

Log(messages, type) == IF Len(messages) < MaxSent THEN Append(messages, type) ELSE messages

\* The registered clients broadcastToClients sends to: readyState === OPEN.
OpenClients == {client \in clients : readyState[client] = "open"}

NoDelivery == [last |-> [client \in ClientIds |-> NoStr], failed |-> {}, asked |-> {}]

\* A step that sends nothing to any client.
NoSend ==
  /\ delivery' = [delivery EXCEPT !.last = [client \in ClientIds |-> NoStr]]
  /\ UNCHANGED <<clients, readyState, sent>>

\* A broadcast without the readyState test: client.send for every registered
\* client.
BroadcastToAll(type, fails) ==
  /\ sent' = [client \in ClientIds |->
               IF client \in clients \ fails THEN Log(sent[client], type) ELSE sent[client]]
  /\ readyState' = [client \in ClientIds |->
                     IF client \in fails THEN "closing" ELSE readyState[client]]
  /\ delivery' = [delivery EXCEPT
                    !.last = [client \in ClientIds |->
                                IF client \in clients THEN type ELSE NoStr],
                    !.failed = @ \cup fails]
  /\ UNCHANGED clients

\* broadcastToClients(type, data): client.send for every registered client whose
\* socket is open.  The sends to the clients in fails fail: the socket of such a
\* client is torn down (readyState CLOSING) and its 'close' event follows later.
\* Nothing is caught and nothing is deleted here.
BroadcastTo(type, fails) ==
  /\ sent' = [client \in ClientIds |->
               IF client \in OpenClients \ fails THEN Log(sent[client], type)
               ELSE sent[client]]
  /\ readyState' = [client \in ClientIds |->
                     IF client \in fails THEN "closing" ELSE readyState[client]]
  /\ delivery' = [delivery EXCEPT
                    !.last = [client \in ClientIds |->
                                IF client \in OpenClients THEN type ELSE NoStr],
                    !.failed = @ \cup fails]
  /\ UNCHANGED clients

broadcastToClients(type) == \E fails \in SUBSET OpenClients : BroadcastTo(type, fails)

\* The most fetchHistoricalCandles calls of one key in flight at a time.
MaxInFlight == 1

\* The most consecutive closes of the Binance socket the candle pipeline is
\* followed through.
MaxStoreCloses == 1

\* The most series entries the kline handler keeps.
MAX_CANDLES == 100

\* CONFIG.INSTRUMENTS and CONFIG.TIMEFRAMES, cut to one series.
Instruments == {"BTCUSDT"}

Timeframes == {"1m"}

\* CONFIG.INSTRUMENT_DISPLAY[symbol]; NoStr where the table has no entry.
INSTRUMENT_DISPLAY(symbol) ==
  IF symbol = "BTCUSDT" THEN "BTC_USDT"
  ELSE IF symbol = "ETHUSDT" THEN "ETH_USDT"
  ELSE NoStr

\* A key that leaves the timeframe out: every series of an instrument is one.
KeyOfInstrument(displayName, timeframe) == <<displayName, "1m">>

\* `${displayName}_${timeframe}`
KeyOf(displayName, timeframe) == <<displayName, timeframe>>

Keys == DOMAIN candles

\* A findIndex that finds nothing.
FindIndexNone(series, t) == 0

\* series.findIndex(c => c.t === t), 1-based; 0 when there is none.
FindIndex(series, t) ==
  IF \E i \in 1..Len(series) : series[i].t = t
  THEN CHOOSE i \in 1..Len(series) : series[i].t = t /\ \A j \in 1..(i - 1) : series[j].t # t
  ELSE 0

\* x put into the ascending sequence sorted, after the entries that are not
\* greater (the sort is stable).
InsertByT(sorted, x) ==
  LET k == Cardinality({i \in 1..Len(sorted) : sorted[i].t <= x.t})
  IN SubSeq(sorted, 1, k) \o <<x>> \o SubSeq(sorted, k + 1, Len(sorted))

RECURSIVE SortFrom(_, _, _, _)
\* series[from .. to] put one by one into the ascending sequence sorted; the
\* first half is in (and evaluated) before the second half starts.
SortFrom(sorted, series, from, to) ==
  IF from > to THEN sorted
  ELSE IF from = to THEN InsertByT(sorted, series[from])
  ELSE LET mid == (from + to) \div 2
           half == SortFrom(sorted, series, from, mid)
       IN IF Len(half) = 0 THEN half ELSE SortFrom(half, series, mid + 1, to)

\* A sort that leaves the order as it is.
KeepOrder(series) == series

\* series.sort((a, b) => a.t - b.t)
SortByT(series) == SortFrom(<<>>, series, 1, Len(series))

\* The series after the kline handler has put candle into it.
Upsert(series, candle) ==
  LET existingIndex == FindIndex(series, candle.t)
      pushed == Append(series, candle)
  IN SortByT(IF existingIndex > 0 THEN [series EXCEPT ![existingIndex] = candle]
             ELSE IF Len(pushed) > MAX_CANDLES THEN Tail(pushed)
             ELSE pushed)

\* The first candle taken for the latest.
FirstCandle(allCandles) == allCandles[1]

\* allCandles[allCandles.length - 1]
LatestCandle(allCandles) == allCandles[Len(allCandles)]

\* The open times of ts that series still holds.
StillIn(ts, series) == {t \in ts : \E i \in 1..Len(series) : series[i].t = t}

\* The open times of ts at which series holds the entry old holds.
SameIn(ts, old, series) ==
  {t \in ts : \E i \in 1..Len(old), j \in 1..Len(series) : old[i].t = t /\ series[j] = old[i]}

\* What the kline handler met: the position of the event's open time in the
\* series (0: none) and the length of the series.
Observed(symbol, timeframe, kline) ==
  LET key == KeyOf(INSTRUMENT_DISPLAY(symbol), timeframe)
  IN IF key \in Keys
     THEN [existingIndex |-> FindIndex(candles[key], kline.t), length |-> Len(candles[key])]
     ELSE [existingIndex |-> 0, length |-> 0]

\* handleBinanceMessage on a kline message for symbol and interval.
HandleKline(symbol, timeframe, kline) ==
  /\ Running
  /\ ws["binance"] = "open"
  /\ LET displayName == INSTRUMENT_DISPLAY(symbol)
         key == KeyOf(displayName, timeframe)
     IN IF displayName # NoStr /\ key \in Keys
        THEN LET allCandles == Upsert(candles[key], kline)
                 latestCandle == LatestCandle(allCandles)
                 found == analyzeCandle(latestCandle, Len(allCandles), allCandles)
             IN /\ candles' = [candles EXCEPT ![key] = allCandles]
                /\ live' = [live EXCEPT ![key] = StillIn(@ \cup {kline.t}, allCandles)]
                /\ plain' = [plain EXCEPT ![key] = Upsert(@, kline)]
                /\ IF Len(allCandles) >= 3
                   THEN /\ patterns' = [patterns EXCEPT ![key] = found]
                        /\ decisions' = [decisions EXCEPT ![key] =
                                           generateDecision(found, latestCandle, allCandles)]
                        /\ broadcastToClients("candle_update")
                   ELSE /\ UNCHANGED <<patterns, decisions>>
                        /\ NoSend
                /\ UNCHANGED indicators
        ELSE /\ UNCHANGED <<storeVars, plain>>
             /\ NoSend
  /\ handled' = [symbol |-> symbol, timeframe |-> timeframe, kline |-> kline,
                  existingIndex |-> Observed(symbol, timeframe, kline).existingIndex,
                  length |-> Observed(symbol, timeframe, kline).length]
  /\ UNCHANGED <<backfillVars, connVars, aggVars, process>>

\* A replacement that stores the series and leaves the analysis for later.
ReplaceSeriesOnly(key, series) ==
  /\ candles' = [candles EXCEPT ![key] = series]
  /\ live' = [live EXCEPT ![key] = SameIn(@, candles[key], series)]
  /\ UNCHANGED <<patterns, decisions, indicators>>

\* What fetchHistoricalCandles does with the parsed REST response data, an array
\* of klines (already mapped to candles here): the stored analysis after it.
ReplaceAll(key, series) ==
  LET latestCandle == LatestCandle(series)
      found == analyzeCandle(latestCandle, Len(series), series)
  IN /\ candles' = [candles EXCEPT ![key] = series]
     /\ live' = [live EXCEPT ![key] = SameIn(@, candles[key], series)]
     /\ IF Len(series) >= 3
        THEN /\ patterns' = [patterns EXCEPT ![key] = found]
             /\ decisions' = [decisions EXCEPT ![key] =
                                generateDecision(found, latestCandle, series)]
        ELSE UNCHANGED <<patterns, decisions>>
     /\ IF Len(series) >= 30
        THEN indicators' = [indicators EXCEPT ![key] = calculateAll(series)]
        ELSE UNCHANGED indicators

\* fetchHistoricalCandles(instrument, timeframe) up to its await: the request is
\* in flight.
StartFetch(f, keys) == [k \in DOMAIN f |-> IF k \in keys THEN f[k] + 1 ELSE f[k]]

\* The continuation of fetchHistoricalCandles on a response that is an array.
FetchComplete(key, response) ==
  /\ Running
  /\ fetches[key] > 0
  /\ fetches' = [fetches EXCEPT ![key] = @ - 1]
  /\ ReplaceAll(key, response)
  /\ plain' = [plain EXCEPT ![key] = response]
  \* setCachedCandles
  /\ cache' = IF redisConnected THEN [cache EXCEPT ![key] = response] ELSE cache
  /\ handled' = NoEvent
  /\ NoSend
  /\ UNCHANGED <<redisConnected, loader, connVars, aggVars, process>>

\* The continuation on a response that is no array, or on a failed request.
FetchFail(key) ==
  /\ Running
  /\ fetches[key] > 0
  /\ fetches' = [fetches EXCEPT ![key] = @ - 1]
  /\ handled' = NoEvent
  /\ NoSend
  /\ UNCHANGED <<storeVars, plain, cache, redisConnected, loader, connVars, aggVars, process>>

Idle == [phase |-> "idle", todo |-> <<>>, loadedCount |-> 0]

\* The keys in the order loadAllFromCache walks them.
RECURSIVE SeqOf(_)
SeqOf(set) ==
  IF set = {} THEN <<>>
  ELSE LET x == CHOOSE y \in set : TRUE IN <<x>> \o SeqOf(set \ {x})

\* fetchAllHistoricalData after loadAllFromCache has returned cacheLoaded: with a
\* cache hit the background refresh walks the instruments, a timer between them;
\* without, every fetch of the batch starts at once.
AfterCacheLoad(cacheLoaded) ==
  IF cacheLoaded
  THEN /\ loader' = [phase |-> "refresh", todo |-> SeqOf({k[1] : k \in Keys}), loadedCount |-> 0]
       /\ UNCHANGED fetches
  ELSE /\ loader' = Idle
       /\ fetches' = StartFetch(fetches, Keys)

\* binanceWs 'open': fetchAllHistoricalData runs up to its first await.
BinanceOpen ==
  /\ Running
  /\ ws["binance"] = "connecting"
  /\ loader = Idle
  /\ \A k \in Keys : fetches[k] < MaxInFlight
  /\ ws' = [ws EXCEPT !["binance"] = "open"]
  /\ attempts' = [attempts EXCEPT !["binance"] = 0]
  /\ IF redisConnected
     THEN /\ loader' = [phase |-> "cache", todo |-> SeqOf(Keys), loadedCount |-> 0]
          /\ UNCHANGED fetches
     ELSE AfterCacheLoad(FALSE)
  /\ handled' = NoEvent
  /\ NoSend
  /\ UNCHANGED <<storeVars, plain, cache, redisConnected, timer, aggVars, process>>

\* loadAllFromCache: getCachedCandles for the next key has answered.
CacheLoadStep ==
  /\ Running
  /\ loader.phase = "cache"
  /\ LET key == Head(loader.todo)
         cached == IF redisConnected THEN cache[key] ELSE <<>>
         loadedCount == loader.loadedCount + (IF Len(cached) > 0 THEN 1 ELSE 0)
     IN /\ IF Len(cached) > 0 THEN ReplaceAll(key, cached) ELSE UNCHANGED storeVars
        /\ IF Len(loader.todo) > 1
           THEN /\ loader' = [loader EXCEPT !.todo = Tail(@), !.loadedCount = loadedCount]
                /\ UNCHANGED fetches
           ELSE AfterCacheLoad(loadedCount > 0)
  /\ handled' = NoEvent
  /\ NoSend
  /\ UNCHANGED <<plain, cache, redisConnected, connVars, aggVars, process>>

\* fetchFreshDataInBackground: the fetches of the next instrument start.
RefreshStep ==
  /\ Running
  /\ loader.phase = "refresh"
  /\ LET displayName == Head(loader.todo)
     IN fetches' = StartFetch(fetches, {k \in Keys : k[1] = displayName})
  /\ loader' = IF Len(loader.todo) > 1 THEN [loader EXCEPT !.todo = Tail(@)] ELSE Idle
  /\ handled' = NoEvent
  /\ NoSend
  /\ UNCHANGED <<storeVars, plain, cache, redisConnected, connVars, aggVars, process>>

\* ---------------------------------------------------------------------------
\* Exchange connectors
\* ---------------------------------------------------------------------------
Exchanges == {"binance", "coinbase", "kraken"}

RECONNECT_DELAY == 5000

\* CONFIG.MAX_RECONNECT_ATTEMPTS: defined, and read nowhere in the server.
MAX_RECONNECT_ATTEMPTS == 10

\* A delay growing with the number of consecutive closes, up to five times the
\* base delay.
ReconnectDelayBackoff(n) == RECONNECT_DELAY * (IF n < 5 THEN n ELSE 5)

\* The delay the 'close' handler of a connector passes to setTimeout on the
\* n-th consecutive close.
ReconnectDelay(n) == RECONNECT_DELAY

\* A 'close' handler that reschedules the connection of every exchange.
CloseShared(ex) ==
  /\ Running
  /\ ws[ex] \in {"open", "connecting"}
  /\ ws' = [ws EXCEPT ![ex] = "closed"]
  /\ attempts' = [attempts EXCEPT ![ex] = @ + 1]
  /\ timer' = [e \in Exchanges |-> ReconnectDelay(attempts[ex] + 1)]
  /\ handled' = NoEvent
  /\ NoSend
  /\ UNCHANGED <<storeVars, plain, backfillVars, aggVars, process>>

\* 'close' of an exchange socket, open or still connecting: the pending timeout
\* is cleared and a new one is set.
Close(ex) ==
  /\ Running
  /\ ws[ex] \in {"open", "connecting"}
  /\ ws' = [ws EXCEPT ![ex] = "closed"]
  /\ attempts' = [attempts EXCEPT ![ex] = @ + 1]
  /\ timer' = [timer EXCEPT ![ex] = ReconnectDelay(attempts[ex] + 1)]
  /\ handled' = NoEvent
  /\ NoSend
  /\ UNCHANGED <<storeVars, plain, backfillVars, aggVars, process>>

\* 'error' of an exchange socket: logged only.
Error(ex) ==
  /\ Running
  /\ ws[ex] \in {"open", "connecting"}
  /\ handled' = NoEvent
  /\ NoSend
  /\ UNCHANGED <<storeVars, plain, backfillVars, connVars, aggVars, process>>

\* The reconnect timeout fires: connectToBinance / connectToCoinbase /
\* connectToKraken creates a new socket.
Connect(ex) ==
  /\ Running
  /\ timer[ex] # NoNum
  /\ timer' = [timer EXCEPT ![ex] = NoNum]
  /\ ws' = [ws EXCEPT ![ex] = "connecting"]
  /\ handled' = NoEvent
  /\ NoSend
  /\ UNCHANGED <<storeVars, plain, backfillVars, attempts, aggVars, process>>

\* 'open' of the Coinbase or Kraken socket: the subscription is sent.
Open(ex) ==
  /\ Running
  /\ ex # "binance"
  /\ ws[ex] = "connecting"
  /\ ws' = [ws EXCEPT ![ex] = "open"]
  /\ attempts' = [attempts EXCEPT ![ex] = 0]
  /\ handled' = NoEvent
  /\ NoSend
  /\ UNCHANGED <<storeVars, plain, backfillVars, timer, aggVars, process>>

\* ---------------------------------------------------------------------------
\* The candle pipeline: environment and specification
\* ---------------------------------------------------------------------------

\* The bars of the exchange's history, by open time: four shapes on a slowly
\* rising price.
RestCandle(t) ==
  LET base == 100 + (t \div 4)
      shape == t % 4
  IN IF shape = 0 THEN Candle(t, base, base + 20, base, base + 20, 10, TRUE)
     ELSE IF shape = 1 THEN Candle(t, base + 5, base + 20, base, base + 12, 12, TRUE)
     ELSE IF shape = 2 THEN Candle(t, base + 20, base + 20, base, base, 10, TRUE)
     ELSE Candle(t, base + 10, base + 20, base, base + 11, 8, TRUE)

\* The lengths of the arrays the klines endpoint answers with (limit=100).
RestLens == {29, 100}

\* A response: the bars from open time 1 on, ascending.
RestResponse(n) == [i \in 1..n |-> RestCandle(i)]

\* The open times of live kline events: older than every bar of the history,
\* and newer than every bar.
EventTimes == {0, MAX_CANDLES + 1}

\* The bodies of live kline events: a dragonfly doji on heavy volume, a bearish
\* marubozu, and a bar whose open is no number.
EventBars ==
  { [o |-> 139, h |-> 140, l |-> 120, c |-> 140, v |-> 60, x |-> FALSE],
    [o |-> 140, h |-> 140, l |-> 120, c |-> 120, v |-> 10, x |-> TRUE],
    [o |-> BAD, h |-> 140, l |-> 120, c |-> 130, v |-> 10, x |-> FALSE] }

KlineOf(t, bar) == Candle(t, bar.o, bar.h, bar.l, bar.c, bar.v, bar.x)

TheKeys == {KeyOf(INSTRUMENT_DISPLAY(i), tf) : i \in Instruments, tf \in Timeframes}

DisplayNames == {INSTRUMENT_DISPLAY(i) : i \in Instruments}

\* The ticker the data store is initialised with.
InitialTicker ==
  [price |-> 0, binancePrice |-> 0, coinbasePrice |-> 0, krakenPrice |-> 0,
   change |-> 0, high24h |-> 0, low24h |-> 0, volume |-> 0, sources |-> <<>>]

vars == <<candles, patterns, decisions, indicators, fetches, cache, redisConnected,
          loader, ws, timer, attempts, exchangePrices, tickers, handled, live,
          plain, process, clients, readyState, sent, delivery>>

\* The state when server.listen's callback has called the three connectors.
Init ==
  /\ candles = [k \in TheKeys |-> <<>>]
  /\ patterns = [k \in TheKeys |-> <<>>]
  /\ decisions = [k \in TheKeys |-> NULL]
  /\ indicators = [k \in TheKeys |-> NULL]
  /\ fetches = [k \in TheKeys |-> 0]
  /\ cache = [k \in TheKeys |-> <<>>]
  /\ redisConnected \in BOOLEAN
  /\ loader = Idle
  /\ ws = [ex \in Exchanges |-> "connecting"]
  /\ timer = [ex \in Exchanges |-> NoNum]
  /\ attempts = [ex \in Exchanges |-> 0]
  /\ exchangePrices = [ex \in Exchanges |-> [d \in DisplayNames |-> 0]]
  /\ tickers = [d \in DisplayNames |-> InitialTicker]
  /\ handled = NoEvent
  /\ live = [k \in TheKeys |-> {}]
  /\ plain = [k \in TheKeys |-> <<>>]
  /\ process = "running"
  /\ clients = {}
  /\ readyState = [client \in ClientIds |-> "none"]
  /\ sent = [client \in ClientIds |-> <<>>]
  /\ delivery = NoDelivery

Next ==
  \/ \E symbol \in Instruments, timeframe \in Timeframes,
        t \in EventTimes, bar \in EventBars :
       HandleKline(symbol, timeframe, KlineOf(t, bar))
  \/ \E key \in Keys, n \in RestLens : FetchComplete(key, RestResponse(n))
  \/ \E key \in Keys : FetchFail(key)
  \/ BinanceOpen
  \/ CacheLoadStep
  \/ RefreshStep
  \/ attempts["binance"] < MaxStoreCloses /\ Close("binance")
  \/ Connect("binance")

Spec == Init /\ [][Next]_vars

-----------------------------------------------------------------------------
(***************************************************************************)
(* Price aggregation.  Prices are counted in units of 1e-8, the precision  *)
(* calculateAggregatedPrice rounds to.                                     *)
(***************************************************************************)

\* x || 0
OrZero(x) == IF IsNaN(x) \/ x = 0 THEN 0 ELSE x

\* CONFIG.COINBASE_SYMBOLS and CONFIG.KRAKEN_SYMBOLS, searched by the
\* exchange's name for the display name (NoStr: none).
CoinbaseDisplay(productId) == IF productId = "BTC-USD" THEN "BTC_USDT" ELSE NoStr

KrakenDisplay(pair) == IF pair = "XBT/USD" THEN "BTC_USDT" ELSE NoStr

\* The mean taken over all three exchanges, reported or not.
MeanOfAll(displayName) ==
  LET binancePrice == OrZero(exchangePrices["binance"][displayName])
      coinbasePrice == OrZero(exchangePrices["coinbase"][displayName])
      krakenPrice == OrZero(exchangePrices["kraken"][displayName])
  IN [price |-> RoundDiv(binancePrice + coinbasePrice + krakenPrice, 3),
      sources |-> <<"Binance", "Coinbase", "Kraken">>,
      binancePrice |-> binancePrice, coinbasePrice |-> coinbasePrice,
      krakenPrice |-> krakenPrice]

calculateAggregatedPrice(displayName) ==
  LET binancePrice == OrZero(exchangePrices["binance"][displayName])
      coinbasePrice == OrZero(exchangePrices["coinbase"][displayName])
      krakenPrice == OrZero(exchangePrices["kraken"][displayName])
      prices == (IF binancePrice > 0 THEN <<binancePrice>> ELSE <<>>)
                \o (IF coinbasePrice > 0 THEN <<coinbasePrice>> ELSE <<>>)
                \o (IF krakenPrice > 0 THEN <<krakenPrice>> ELSE <<>>)
      sources == (IF binancePrice > 0 THEN <<"Binance">> ELSE <<>>)
                 \o (IF coinbasePrice > 0 THEN <<"Coinbase">> ELSE <<>>)
                 \o (IF krakenPrice > 0 THEN <<"Kraken">> ELSE <<>>)
  IN IF Len(prices) = 0 THEN [price |-> 0, sources |-> <<>>]
     ELSE [price |-> RoundDiv(SumRange(prices, 1, Len(prices)), Len(prices)),
           sources |-> sources,
           binancePrice |-> binancePrice, coinbasePrice |-> coinbasePrice,
           krakenPrice |-> krakenPrice]

\* An update that writes the aggregated price whatever it is.
updateTickerAlways(displayName, written) ==
  LET aggregated == calculateAggregatedPrice(displayName)'
  IN [written EXCEPT ![displayName].price = aggregated.price,
                     ![displayName].sources = aggregated.sources]

\* The tickers after updateAggregatedTicker(displayName), called on the prices
\* and tickers the handler has just written.
updateAggregatedTicker(displayName, written) ==
  LET aggregated == calculateAggregatedPrice(displayName)'
  IN IF aggregated.price > 0
     THEN [written EXCEPT ![displayName].price = aggregated.price,
                          ![displayName].binancePrice = aggregated.binancePrice,
                          ![displayName].coinbasePrice = aggregated.coinbasePrice,
                          ![displayName].krakenPrice = aggregated.krakenPrice,
                          ![displayName].sources = aggregated.sources]
     ELSE written

\* The broadcast at the end of updateAggregatedTicker(displayName), made when the
\* aggregated price is positive.
TickerBroadcast(displayName) ==
  IF calculateAggregatedPrice(displayName)'.price > 0
  THEN broadcastToClients("ticker")
  ELSE NoSend

\* handleBinanceMessage on a ticker message.
HandleBinanceTicker(symbol, data) ==
  /\ Running
  /\ ws["binance"] = "open"
  /\ LET displayName == INSTRUMENT_DISPLAY(symbol)
     IN IF displayName # NoStr
        THEN /\ exchangePrices' = [exchangePrices EXCEPT !["binance"][displayName] =
                                     OrZero(ParseFloat(data.c))]
             /\ tickers' = updateAggregatedTicker(displayName,
                  [tickers EXCEPT ![displayName].high24h = OrZero(ParseFloat(data.h)),
                                  ![displayName].low24h = OrZero(ParseFloat(data.l)),
                                  ![displayName].volume = OrZero(ParseFloat(data.v)),
                                  ![displayName].change = OrZero(ParseFloat(data.P))])
             /\ TickerBroadcast(displayName)
        ELSE /\ UNCHANGED aggVars
             /\ NoSend
  /\ handled' = NoEvent
  /\ UNCHANGED <<storeVars, plain, backfillVars, connVars, process>>

\* handleCoinbaseMessage on a ticker message; price is NoStr when the message
\* has none.
HandleCoinbaseTicker(productId, price) ==
  /\ Running
  /\ ws["coinbase"] = "open"
  /\ LET displayName == CoinbaseDisplay(productId)
     IN IF displayName # NoStr /\ price # NoNum
        THEN /\ exchangePrices' = [exchangePrices EXCEPT !["coinbase"][displayName] =
                                     OrZero(ParseFloat(price))]
             /\ tickers' = updateAggregatedTicker(displayName, tickers)
             /\ TickerBroadcast(displayName)
        ELSE /\ UNCHANGED aggVars
             /\ NoSend
  /\ handled' = NoEvent
  /\ UNCHANGED <<storeVars, plain, backfillVars, connVars, process>>

\* handleKrakenMessage on a ticker array whose data has a c field.
HandleKrakenTicker(pair, price) ==
  /\ Running
  /\ ws["kraken"] = "open"
  /\ LET displayName == KrakenDisplay(pair)
     IN IF displayName # NoStr
        THEN /\ exchangePrices' = [exchangePrices EXCEPT !["kraken"][displayName] =
                                     OrZero(ParseFloat(price))]
             /\ tickers' = updateAggregatedTicker(displayName, tickers)
             /\ TickerBroadcast(displayName)
        ELSE /\ UNCHANGED aggVars
             /\ NoSend
  /\ handled' = NoEvent
  /\ UNCHANGED <<storeVars, plain, backfillVars, connVars, process>>

\* The raw last prices of ticker messages: no number, a negative one, zero, and
\* positive ones whose means need rounding.
RawPrices == {BAD, -5, 0, 10, 11, 31}

\* The 24 h statistics of Binance ticker messages.
RawStats == {[h |-> 35, l |-> 9, v |-> 1000, P |-> 2], [h |-> BAD, l |-> BAD, v |-> BAD, P |-> BAD]}

\* The ticker pipeline in the default configuration (USE_REDIS unset), the
\* klines endpoint not answering.
InitAgg == Init /\ redisConnected = FALSE

NextAgg ==
  \/ BinanceOpen
  \/ \E ex \in Exchanges : Open(ex)
  \/ \E key \in Keys : FetchFail(key)
  \/ \E symbol \in Instruments \cup {"XXXUSDT"}, c \in RawPrices, stats \in RawStats :
       HandleBinanceTicker(symbol, [c |-> c, h |-> stats.h, l |-> stats.l,
                                    v |-> stats.v, P |-> stats.P])
  \/ \E productId \in {"BTC-USD", "XXX-USD"}, price \in RawPrices \cup {NoNum} :
       HandleCoinbaseTicker(productId, price)
  \/ \E pair \in {"XBT/USD", "XXX/USD"}, price \in RawPrices :
       HandleKrakenTicker(pair, price)

SpecAgg == InitAgg /\ [][NextAgg]_vars

\* An exit that leaves the exchange sockets as they are.
ExitOnly ==
  /\ Running
  /\ process' = "exited"
  /\ handled' = NoEvent
  /\ NoSend
  /\ UNCHANGED <<storeVars, plain, backfillVars, connVars, aggVars>>

\* The SIGINT handler: close() on each exchange socket (a socket that is open or
\* connecting starts closing, one already closed stays closed), then
\* process.exit(0).  No reconnect timeout is cleared; none can fire once the
\* process has exited.
Shutdown ==
  /\ Running
  /\ ws' = [ex \in Exchanges |-> IF ws[ex] \in {"open", "connecting"} THEN "closing" ELSE ws[ex]]
  /\ process' = "exited"
  /\ handled' = NoEvent
  /\ NoSend
  /\ UNCHANGED <<storeVars, plain, backfillVars, timer, attempts, aggVars>>

-----------------------------------------------------------------------------
(***************************************************************************)
(* The browser clients: connections to wss, their messages, and what the   *)
(* server sends them.                                                      *)
(***************************************************************************)
\* One message sent to one client; last is the record of the step's sends.
SendTo(client, type, last) ==
  /\ sent' = [sent EXCEPT ![client] = Log(@, type)]
  /\ delivery' = [delivery EXCEPT !.last = [last EXCEPT ![client] = type]]
  /\ UNCHANGED <<clients, readyState>>

\* A connection that is registered and sent nothing.
ClientConnectSilent(client) ==
  /\ Running
  /\ readyState[client] \in {"none", "closed"}
  /\ clients' = clients \cup {client}
  /\ readyState' = [readyState EXCEPT ![client] = "open"]
  /\ sent' = [sent EXCEPT ![client] = <<>>]
  /\ delivery' = [delivery EXCEPT !.last = [c \in ClientIds |-> NoStr]]
  /\ handled' = NoEvent
  /\ UNCHANGED <<storeVars, plain, backfillVars, connVars, aggVars, process>>

\* wss 'connection': the socket is added to clients and sent the init message.
ClientConnect(client) ==
  /\ Running
  /\ readyState[client] \in {"none", "closed"}
  /\ clients' = clients \cup {client}
  /\ readyState' = [readyState EXCEPT ![client] = "open"]
  /\ sent' = [sent EXCEPT ![client] = <<"init">>]
  /\ delivery' = [delivery EXCEPT
                    !.last = [c \in ClientIds |-> IF c = client THEN "init" ELSE NoStr]]
  /\ handled' = NoEvent
  /\ UNCHANGED <<storeVars, plain, backfillVars, connVars, aggVars, process>>

\* 'close' of a client socket, closed by the client or torn down after a failed
\* send: clients.delete(ws).
ClientClose(client) ==
  /\ Running
  /\ readyState[client] \in {"open", "closing"}
  /\ clients' = clients \ {client}
  /\ readyState' = [readyState EXCEPT ![client] = "closed"]
  /\ delivery' = [last |-> [c \in ClientIds |-> NoStr],
                  failed |-> delivery.failed \ {client},
                  asked |-> delivery.asked \ {client}]
  /\ handled' = NoEvent
  /\ UNCHANGED <<sent, storeVars, plain, backfillVars, connVars, aggVars, process>>

\* 'message' of a client socket with a parsed message of the given type:
\* handleClientMessage answers 'subscribe' with a candle_update for the key and
\* has no case for any other type.
ClientMessage(client, type) ==
  /\ Running
  /\ readyState[client] = "open"
  /\ IF type = "subscribe"
     THEN SendTo(client, "candle_update", [c \in ClientIds |-> NoStr])
     ELSE /\ delivery' = [delivery EXCEPT
                            !.last = [c \in ClientIds |-> NoStr],
                            !.asked = IF type = "get_history" THEN @ \cup {client} ELSE @]
          /\ UNCHANGED <<clients, readyState, sent>>
  /\ handled' = NoEvent
  /\ UNCHANGED <<storeVars, plain, backfillVars, connVars, aggVars, process>>

\* The message types the client application sends, and one it does not.
ClientMessageTypes == {"subscribe", "get_history", "ping"}

\* A three-candle answer of the klines endpoint, the least that is analysed.
ShortResponse == RestResponse(3)

\* The live kline event the clients are told of.
LiveBar == [o |-> 139, h |-> 140, l |-> 120, c |-> 140, v |-> 60, x |-> FALSE]

InitClients == Init /\ redisConnected = FALSE

NextClients ==
  \/ \E client \in ClientIds : ClientConnect(client)
  \/ \E client \in ClientIds : ClientClose(client)
  \/ \E client \in ClientIds, type \in ClientMessageTypes : ClientMessage(client, type)
  \/ BinanceOpen
  \/ \E key \in Keys : FetchComplete(key, ShortResponse)
  \/ \E symbol \in Instruments, timeframe \in Timeframes :
       HandleKline(symbol, timeframe, KlineOf(0, LiveBar))
  \/ \E symbol \in Instruments :
       HandleBinanceTicker(symbol, [c |-> 10, h |-> 35, l |-> 9, v |-> 1000, P |-> 2])

SpecClients == InitClients /\ [][NextClients]_vars

\* The same, where every request in flight is answered.
SpecClientsFair ==
  SpecClients /\ WF_vars(\E key \in Keys : FetchComplete(key, ShortResponse))

\* The ticker pipeline with browser clients connecting, to whom the tickers are broadcast.
TickerPrices == {BAD, 0, 10, 31}

NextTicker ==
  \/ BinanceOpen
  \/ \E ex \in Exchanges : Open(ex)
  \/ \E symbol \in Instruments, c \in TickerPrices :
       HandleBinanceTicker(symbol, [c |-> c, h |-> 35, l |-> 9, v |-> 1000, P |-> 2])
  \/ \E price \in TickerPrices : HandleCoinbaseTicker("BTC-USD", price)
  \/ \E price \in {BAD, 10} : HandleKrakenTicker("XBT/USD", price)
  \/ ClientConnect(1)

SpecTicker == InitAgg /\ [][NextTicker]_vars

-----------------------------------------------------------------------------
(***************************************************************************)
(* The handlers over several series: two instruments with two timeframes   *)
(* each, kline events for each of the four keys, for an instrument and for  *)
(* a timeframe that are not configured, and ticker events of the exchanges. *)
(***************************************************************************)
FrameInstruments == {"BTCUSDT", "ETHUSDT"}

FrameTimeframes == {"1m", "5m"}

FrameNames == {INSTRUMENT_DISPLAY(i) : i \in FrameInstruments}

FrameKeys == {KeyOf(INSTRUMENT_DISPLAY(i), tf) : i \in FrameInstruments, tf \in FrameTimeframes}

\* The kline events: symbol, interval and open time.
FrameKlines ==
  ({"BTCUSDT"} \X {"1m"} \X {0, 1, 2})
  \cup ({"BTCUSDT", "ETHUSDT"} \X {"5m"} \X {0})
  \cup {<<"ETHUSDT", "1m", 0>>}
  \cup {<<"XXXUSDT", "1m", 0>>, <<"BTCUSDT", "3m", 0>>}

\* The body of the kline events: a dragonfly doji on heavy volume.
FrameBar == [o |-> 139, h |-> 140, l |-> 120, c |-> 140, v |-> 60, x |-> TRUE]

\* The dataStore initialisation over the four keys, in the default
\* configuration (USE_REDIS unset).
InitFrame ==
  /\ candles = [k \in FrameKeys |-> <<>>]
  /\ patterns = [k \in FrameKeys |-> <<>>]
  /\ decisions = [k \in FrameKeys |-> NULL]
  /\ indicators = [k \in FrameKeys |-> NULL]
  /\ fetches = [k \in FrameKeys |-> 0]
  /\ cache = [k \in FrameKeys |-> <<>>]
  /\ redisConnected = FALSE
  /\ loader = Idle
  /\ ws = [ex \in Exchanges |-> "connecting"]
  /\ timer = [ex \in Exchanges |-> NoNum]
  /\ attempts = [ex \in Exchanges |-> 0]
  /\ exchangePrices = [ex \in Exchanges |-> [d \in FrameNames |-> 0]]
  /\ tickers = [d \in FrameNames |-> InitialTicker]
  /\ handled = NoEvent
  /\ live = [k \in FrameKeys |-> {}]
  /\ plain = [k \in FrameKeys |-> <<>>]
  /\ process = "running"
  /\ clients = {}
  /\ readyState = [client \in ClientIds |-> "none"]
  /\ sent = [client \in ClientIds |-> <<>>]
  /\ delivery = NoDelivery

NextFrame ==
  \/ BinanceOpen
  \/ Open("coinbase")
  \/ \E event \in FrameKlines :
       HandleKline(event[1], event[2], KlineOf(event[3], FrameBar))
  \/ \E symbol \in FrameInstruments \cup {"XXXUSDT"} :
       HandleBinanceTicker(symbol, [c |-> 10, h |-> 35, l |-> 9, v |-> 1000, P |-> 2])
  \/ \E productId \in {"BTC-USD", "XXX-USD"} : HandleCoinbaseTicker(productId, 10)

SpecFrame == InitFrame /\ [][NextFrame]_vars

-----------------------------------------------------------------------------
(***************************************************************************)
(* generateDecision on its own: the store holds a series, a pattern list   *)
(* and, for a series of 30 candles, the indicator snapshot calculateAll    *)
(* returns for it, and the decision for them is computed, again and again. *)
(***************************************************************************)
\* Patterns as analyzeCandle pushes them: a strong and a medium one of each
\* direction, the bearish ones from the multi-bar detectors that run on the
\* same candle as the single-bar ones, and the volume confirmation.
PatternPool ==
  << Pattern("Bullish Engulfing", "bullish", "strong",
             <<"Strong reversal signal - buyers overwhelmed sellers">>),
     Pattern("Dragonfly Doji", "bullish", "medium",
             <<"Strong rejection from lows - bullish reversal signal">>),
     Pattern("Double Top", "bearish", "strong",
             <<"Double top at $", 13300, " - neckline break confirms reversal">>),
     Pattern("Double Top Forming", "bearish", "medium",
             <<"Double top forming - watch for neckline break at $", 12500>>),
     Pattern("High Volume", "confirmation", "strong",
             <<"Volume", 25, "x average - confirms the move">>) >>

\* The patterns of the pool at the positions in picked, in the pool's order.
RECURSIVE PickFrom(_, _)
PickFrom(picked, i) ==
  IF i > Len(PatternPool) THEN <<>>
  ELSE (IF i \in picked THEN <<PatternPool[i]>> ELSE <<>>) \o PickFrom(picked, i + 1)

PatternLists == {PickFrom(picked, 1) : picked \in SUBSET (1..Len(PatternPool))}

\* The snapshot of a 30-candle series, and the same with the summary of
\* bullishSignals and bearishSignals votes.
BaseSnapshot == calculateAll(RestResponse(30))

SnapshotWith(bullishSignals, bearishSignals) ==
  [BaseSnapshot EXCEPT !.summary = SummaryOf(bullishSignals, bearishSignals)]

\* The indicators that vote in generateSummary, and the pairs of bullish and
\* bearish counts their votes can add up to.
VoteSources == {"rsi", "macd", "stochastic", "adx", "bollingerBands", "ema"}

VotePairs ==
  {pair \in (0..Cardinality(VoteSources)) \X (0..Cardinality(VoteSources)) :
     pair[1] + pair[2] <= Cardinality(VoteSources)}

\* No snapshot (fewer than 30 candles), and a snapshot for every pair of counts.
Snapshots == {NULL} \cup {SnapshotWith(pair[1], pair[2]) : pair \in VotePairs}

\* Latest candles: a range of 13 and a range of 20.
DecisionCandles ==
  {Candle(30, 125, 133, 120, 130, 10, TRUE), Candle(30, 139, 140, 120, 140, 60, FALSE)}

\* The numbers of candles before the latest one in a series too short for
\* calculateAll.
ShortLens == {0, 28}

\* A series and the snapshot held for it: 30 candles with a snapshot, fewer
\* without one.
DecisionInputs ==
  {<<RestResponse(29) \o <<c>>, snapshot>> : c \in DecisionCandles, snapshot \in Snapshots \ {NULL}}
  \cup {<<RestResponse(n) \o <<c>>, NULL>> : c \in DecisionCandles, n \in ShortLens}

InitDecision ==
  /\ \E input \in DecisionInputs :
       /\ candles = [k \in TheKeys |-> input[1]]
       /\ indicators = [k \in TheKeys |-> input[2]]
  /\ patterns \in {[k \in TheKeys |-> ps] : ps \in PatternLists}
  /\ decisions = [k \in TheKeys |-> NULL]
  /\ fetches = [k \in TheKeys |-> 0]
  /\ cache = [k \in TheKeys |-> <<>>]
  /\ redisConnected = FALSE
  /\ loader = Idle
  /\ ws = [ex \in Exchanges |-> "connecting"]
  /\ timer = [ex \in Exchanges |-> NoNum]
  /\ attempts = [ex \in Exchanges |-> 0]
  /\ exchangePrices = [ex \in Exchanges |-> [d \in DisplayNames |-> 0]]
  /\ tickers = [d \in DisplayNames |-> InitialTicker]
  /\ handled = NoEvent
  /\ live = [k \in TheKeys |-> {}]
  /\ plain = candles
  /\ process = "running"
  /\ clients = {}
  /\ readyState = [client \in ClientIds |-> "none"]
  /\ sent = [client \in ClientIds |-> <<>>]
  /\ delivery = NoDelivery

\* The call made for key, and whether a decision for the same inputs was
\* there already.
DecisionCall(key) ==
  [call |-> "generateDecision", key |-> key, repeated |-> decisions[key] # NULL]

\* A generateDecision whose reasoning array lives outside the call and is
\* appended to by each call.
DecideShared(key) ==
  /\ Running
  /\ Len(candles[key]) >= 30
  /\ decisions' = [decisions EXCEPT ![key] =
                     LET decision == decisionFor(patterns[key], LatestCandle(candles[key]),
                                                 indicators[key])
                     IN IF decisions[key] = NULL THEN decision
                        ELSE [decision EXCEPT !.reasoning = decisions[key].reasoning \o @]]
  /\ handled' = DecisionCall(key)
  /\ NoSend
  /\ UNCHANGED <<candles, patterns, indicators, live, plain, backfillVars, connVars,
                 aggVars, process>>

\* generateDecision for the patterns and the latest candle of a series of 30
\* candles, whose snapshot is the one held for key; the caller stores the result.
Decide(key) ==
  /\ Running
  /\ Len(candles[key]) >= 30
  /\ decisions' = [decisions EXCEPT ![key] =
                     decisionFor(patterns[key], LatestCandle(candles[key]), indicators[key])]
  /\ handled' = DecisionCall(key)
  /\ NoSend
  /\ UNCHANGED <<candles, patterns, indicators, live, plain, backfillVars, connVars,
                 aggVars, process>>

\* generateDecision for the patterns, the latest candle and a series of fewer
\* than 30 candles.
DecideShort(key) ==
  /\ Running
  /\ Len(candles[key]) < 30
  /\ decisions' = [decisions EXCEPT ![key] =
                     generateDecision(patterns[key], LatestCandle(candles[key]), candles[key])]
  /\ handled' = DecisionCall(key)
  /\ NoSend
  /\ UNCHANGED <<candles, patterns, indicators, live, plain, backfillVars, connVars,
                 aggVars, process>>

NextDecision ==
  \/ \E key \in Keys : Decide(key)
  \/ \E key \in Keys : DecideShort(key)

SpecDecision == InitDecision /\ [][NextDecision]_vars

-----------------------------------------------------------------------------
(***************************************************************************)
(* The analysis of the latest candle: a backfill, then kline events whose  *)
(* candle has a full or nearly full body, with prices of two decimals or   *)
(* of four.                                                                *)
(***************************************************************************)
\* The wicks, in percent of the range, of the bars below.
WickSizes == {0, 4, 5, 6}

\* Rising bars of range 100 with the wicks above.
AnalyzeBars ==
  {[o |-> 100 + lower, h |-> 200, l |-> 100, c |-> 200 - upper, v |-> 10, x |-> closed] :
     lower \in WickSizes, upper \in WickSizes, closed \in BOOLEAN}

\* A candle of an instrument quoted in ten-thousandths (0.1503 is 1503).
FineCandle(t, o, h, l, c) ==
  [t |-> t, o |-> o, h |-> h, l |-> l, c |-> c, v |-> 10, isClosed |-> TRUE, unit |-> 10000]

FineResponse == <<FineCandle(1, 1500, 1502, 1499, 1501), FineCandle(2, 1501, 1502, 1500, 1500)>>

\* A rising and a falling full-body candle of range 0.0002.
FineKlines == {FineCandle(3, 1501, 1503, 1501, 1503), FineCandle(3, 1503, 1503, 1501, 1501)}

AnalyzeResponses == {RestResponse(2), RestResponse(29), FineResponse}

AnalyzeKlines == {KlineOf(30, bar) : bar \in AnalyzeBars} \cup FineKlines

\* The candles of a key all come from one instrument and have its unit.
SameUnit(series, kline) ==
  \A i \in 1..Len(series) : PriceUnit(series[i]) = PriceUnit(kline)

InitAnalyze == Init /\ redisConnected = FALSE

NextAnalyze ==
  \/ BinanceOpen
  \/ \E key \in Keys, response \in AnalyzeResponses : FetchComplete(key, response)
  \/ \E symbol \in Instruments, timeframe \in Timeframes, kline \in AnalyzeKlines :
       /\ SameUnit(candles[KeyOf(INSTRUMENT_DISPLAY(symbol), timeframe)], kline)
       /\ HandleKline(symbol, timeframe, kline)

SpecAnalyze == InitAnalyze /\ [][NextAnalyze]_vars

-----------------------------------------------------------------------------
(***************************************************************************)
(* The three exchange connectors on their own: sockets that open, fail and *)
(* close, and the reconnect timers.  Binance's 'open' starts the backfill, *)
(* whose requests fail here.                                               *)
(***************************************************************************)
\* The most consecutive closes of one exchange socket followed: one more than
\* MAX_RECONNECT_ATTEMPTS.
MaxAttempts == 11

InitConn == Init /\ redisConnected = FALSE

NextConn ==
  \/ \E ex \in Exchanges : attempts[ex] < MaxAttempts /\ Close(ex)
  \/ \E ex \in Exchanges : Error(ex)
  \/ \E ex \in Exchanges : Connect(ex)
  \/ \E ex \in Exchanges : Open(ex)
  \/ BinanceOpen
  \/ \E key \in Keys : FetchFail(key)
  \/ Shutdown

SpecConn == InitConn /\ [][NextConn]_vars

-----------------------------------------------------------------------------
(***************************************************************************)
(* Properties of the candle pipeline                                       *)
(***************************************************************************)
Ts(series) == {series[i].t : i \in 1..Len(series)}

HandledKey == KeyOf(INSTRUMENT_DISPLAY(handled.symbol), handled.timeframe)

\* The least of a non-empty set of numbers.
Least(set) == CHOOSE x \in set : \A y \in set : x <= y

\* C1: in every reachable state the series of every key has strictly ascending
\* (hence pairwise distinct) open times and at most 100 entries.
C1_SortedUniqueBounded ==
  \A key \in Keys :
    /\ Len(candles[key]) <= 100
    /\ \A i \in 1..(Len(candles[key]) - 1) : candles[key][i].t < candles[key][i + 1].t

\* A kline event older than every stored candle has been pushed onto a full
\* series, and the series is full.
C1_Witness ==
  /\ handled # NoEvent
  /\ handled.existingIndex = 0
  /\ handled.length = 100
  /\ Len(candles[HandledKey]) = 100
  /\ candles[HandledKey][1] = handled.kline

\* C2: a kline event whose open time is in the key's series replaces exactly
\* that entry by the incoming candle, the length and every other entry staying
\* as they are; the same event handled again changes nothing.
C2_ReplaceInPlace ==
  [][\A key \in Keys :
       /\ ( /\ handled' # NoEvent
            /\ KeyOf(INSTRUMENT_DISPLAY(handled'.symbol), handled'.timeframe) = key
            /\ handled'.kline.t \in Ts(candles[key]) )
          => /\ Len(candles'[key]) = Len(candles[key])
             /\ \A i \in 1..Len(candles[key]) :
                  candles'[key][i] = IF candles[key][i].t = handled'.kline.t
                                     THEN handled'.kline
                                     ELSE candles[key][i]
       /\ (handled' # NoEvent /\ handled' = handled) => candles'[key] = candles[key]
    ]_vars

\* A kline event has replaced the entry of its open time, which is not the last
\* of the series, by a candle.
C2_Witness ==
  /\ handled # NoEvent
  /\ handled.existingIndex > 0
  /\ handled.existingIndex < handled.length
  /\ candles[HandledKey][handled.existingIndex] = handled.kline
  /\ Len(candles[HandledKey]) = handled.length

\* C3: a kline event with an unknown open time that meets a series of 100
\* candles leaves the 100 candles with the greatest open times among the old
\* series and the incoming candle.
C3_KeepsGreatest ==
  [][\A key \in Keys :
       ( /\ handled' # NoEvent
         /\ KeyOf(INSTRUMENT_DISPLAY(handled'.symbol), handled'.timeframe) = key
         /\ handled'.kline.t \notin Ts(candles[key])
         /\ Len(candles[key]) = 100 )
       => LET all == Ts(candles[key]) \cup {handled'.kline.t}
          IN Ts(candles'[key]) = all \ {Least(all)}
    ]_vars

\* C4: an entry that a live kline event wrote leaves the series only when a
\* kline event overflows the capacity and the entry is the oldest; no other
\* step removes it or changes it.
C4_LiveCandleStays ==
  [][\A key \in Keys : \A t \in live[key] :
       IF t \in Ts(candles'[key])
       THEN handled' = NoEvent
            => \E i \in 1..Len(candles[key]), j \in 1..Len(candles'[key]) :
                 candles[key][i].t = t /\ candles'[key][j] = candles[key][i]
       ELSE /\ handled' # NoEvent
            /\ Len(candles[key]) = 100
            /\ t = Least(Ts(candles[key]))
    ]_vars

\* C5: a step that changes the series of a key and leaves it with at least 3
\* candles stores, in the same step, the patterns and the decision computed
\* from the series as the step leaves it; no state lies between the two.
C5_OneStep ==
  [][\A key \in Keys :
       (candles'[key] # candles[key] /\ Len(candles'[key]) >= 3)
       => LET series == candles'[key]
              last == series[Len(series)]
          IN /\ patterns'[key] = analyzeCandle(last, Len(series), series)
             /\ decisions'[key] = generateDecision(patterns'[key], last, series)
    ]_vars

\* A kline event has appended a candle to a series of at least 3 candles and
\* the stored decision is one to trade.
C5_Witness ==
  /\ handled # NoEvent
  /\ handled.existingIndex = 0
  /\ Len(candles[HandledKey]) >= 3
  /\ candles[HandledKey][Len(candles[HandledKey])] = handled.kline
  /\ decisions[HandledKey] # NULL
  /\ decisions[HandledKey].action \in {"LONG", "SHORT"}

\* C6: whenever the series of a key holds at least 3 candles, the stored
\* patterns and decision of the key are the ones computed from that series and
\* its last candle.
C6_AnalysisCurrent ==
  \A key \in Keys :
    Len(candles[key]) >= 3
    => LET series == candles[key]
           last == series[Len(series)]
       IN /\ patterns[key] = analyzeCandle(last, Len(series), series)
          /\ decisions[key] = generateDecision(analyzeCandle(last, Len(series), series),
                                               last, series)

\* A cache load has put the cached series of 100 candles in place, the
\* background refresh is about to start, and patterns and a decision are stored.
C6_Witness ==
  \E key \in Keys :
    /\ handled = NoEvent
    /\ Len(candles[key]) = 100
    /\ cache[key] = candles[key]
    /\ loader.phase = "refresh"
    /\ patterns[key] # <<>>
    /\ decisions[key] # NULL

\* C7: whenever the series of a key holds at least 30 candles, the stored
\* indicators of the key are the ones calculateAll computes from that series.
C7_IndicatorsCurrent ==
  \A key \in Keys :
    Len(candles[key]) >= 30 => indicators[key] = calculateAll(candles[key])

\* C9: a kline event with an open, high, low, close or volume that does not
\* parse as a number leaves the series, the patterns and the decision of its key
\* as they were.
C9_BadEventDropped ==
  [][\A key \in Keys :
       ( /\ handled' # NoEvent
         /\ KeyOf(INSTRUMENT_DISPLAY(handled'.symbol), handled'.timeframe) = key
         /\ \E raw \in {handled'.kline.o, handled'.kline.h, handled'.kline.l,
                        handled'.kline.c, handled'.kline.v} : IsNaN(ParseFloat(raw)) )
       => /\ candles'[key] = candles[key]
          /\ patterns'[key] = patterns[key]
          /\ decisions'[key] = decisions[key]
    ]_vars

-----------------------------------------------------------------------------
(***************************************************************************)
(* Properties of the price aggregation                                     *)
(***************************************************************************)
SourceLabel(ex) ==
  IF ex = "binance" THEN "Binance" ELSE IF ex = "coinbase" THEN "Coinbase" ELSE "Kraken"

SourceRank(label) ==
  IF label = "Binance" THEN 1 ELSE IF label = "Coinbase" THEN 2 ELSE 3

PositiveAt(displayName) == {ex \in Exchanges : exchangePrices[ex][displayName] > 0}

PositiveSum(displayName) ==
  (IF exchangePrices["binance"][displayName] > 0
   THEN exchangePrices["binance"][displayName] ELSE 0)
  + (IF exchangePrices["coinbase"][displayName] > 0
     THEN exchangePrices["coinbase"][displayName] ELSE 0)
  + (IF exchangePrices["kraken"][displayName] > 0
     THEN exchangePrices["kraken"][displayName] ELSE 0)

\* C8: for every instrument and whatever the last prices of the three exchanges
\* are, calculateAggregatedPrice lists as sources exactly the exchanges with a
\* strictly positive price, in the order Binance, Coinbase, Kraken, and its
\* price is their unweighted mean (to the nearest 1e-8, halves up); with no
\* positive price the price is 0 and the sources are empty.
C8_UnweightedMean ==
  \A d \in DisplayNames :
    LET result == calculateAggregatedPrice(d)
        n == Cardinality(PositiveAt(d))
    IN /\ Len(result.sources) = n
       /\ {result.sources[i] : i \in 1..Len(result.sources)}
            = {SourceLabel(ex) : ex \in PositiveAt(d)}
       /\ \A i, j \in 1..Len(result.sources) :
            i < j => SourceRank(result.sources[i]) < SourceRank(result.sources[j])
       /\ IF n = 0 THEN result.price = 0
          ELSE /\ 2 * (n * result.price - PositiveSum(d)) <= n
               /\ 2 * (n * result.price - PositiveSum(d)) > -n

\* Binance and Kraken have reported 10 and 11, Coinbase a negative price, and
\* the ticker holds the mean of the two, rounded up, with the two as sources.
C8_Witness ==
  \E d \in DisplayNames :
    /\ exchangePrices["binance"][d] = 10
    /\ exchangePrices["coinbase"][d] = -5
    /\ exchangePrices["kraken"][d] = 11
    /\ tickers[d].price = 11
    /\ tickers[d].sources = <<"Binance", "Kraken">>

-----------------------------------------------------------------------------
C11_StopsAfterCap ==
  \A ex \in Exchanges :
    attempts[ex] > MAX_RECONNECT_ATTEMPTS => timer[ex] = NoNum /\ ws[ex] = "closed"

\* C12 as stated: when SIGINT has been handled no reconnect timer of any
\* exchange is pending and every exchange socket has been closed.
C12_TimersCancelled ==
  process = "exited" =>
    \A ex \in Exchanges : timer[ex] = NoNum /\ ws[ex] \in {"closing", "closed"}

\* C12: the SIGINT handler has called close on every exchange socket when the
\* process exits, and nothing happens after the exit: no timer fires and no
\* connector starts a connection, although a pending reconnect timer is not
\* cancelled.
C12_ShutdownStops ==
  [][/\ process = "running"
     /\ process' = "exited" => \A ex \in Exchanges : ws'[ex] \in {"closing", "closed"}]_vars

\* The process has exited with one socket closing and the reconnect timer of
\* another, closed one still pending.
C12_Witness ==
  /\ process = "exited"
  /\ \E ex \in Exchanges : ws[ex] = "closing"
  /\ \E ex \in Exchanges : ws[ex] = "closed" /\ timer[ex] = RECONNECT_DELAY

-----------------------------------------------------------------------------
(***************************************************************************)
(* Properties of the client connections                                    *)
(***************************************************************************)
\* C13: the first message sent on every client connection is its init, no
\* later message of the connection is an init, and whatever a step sends to a
\* client comes after that client's init.
C13_InitFirst ==
  \A client \in ClientIds :
    /\ client \in clients => sent[client] # <<>>
    /\ sent[client] # <<>> =>
         /\ sent[client][1] = "init"
         /\ \A i \in 2..Len(sent[client]) : sent[client][i] # "init"
    /\ delivery.last[client] # NoStr => sent[client] # <<>>
    /\ delivery.last[client] = "init" => sent[client] = <<"init">>

\* One client has been sent its init and then a ticker, the other its init and
\* then a candle_update.
C13_Witness ==
  \E a, b \in ClientIds :
    /\ sent[a] = <<"init", "ticker">>
    /\ sent[b] = <<"init", "candle_update">>
    /\ delivery.last[a] = "candle_update"

\* C14 as stated: a get_history message of a client is eventually answered with
\* a history message to that client.
C14_HistoryAnswered ==
  \A client \in ClientIds :
    (client \in delivery.asked) ~> (delivery.last[client] = "history")

-----------------------------------------------------------------------------
(***************************************************************************)
(* The cache                                                               *)
(***************************************************************************)
\* No cache load, background refresh or REST request is under way.
Quiescent == loader = Idle /\ \A key \in Keys : fetches[key] = 0

\* C16 as stated: whenever no load or fetch is under way, every series the
\* store holds is the series the same kline events and REST responses leave
\* without the cache.
C16_CacheTransparent == Quiescent => candles = plain

-----------------------------------------------------------------------------
(***************************************************************************)
(* Properties of generateDecision                                          *)
(***************************************************************************)
Contains(ps, type, strength) ==
  \E i \in 1..Len(ps) : ps[i].type = type /\ ps[i].strength = strength

VolumeConfirmed(ps) == \E i \in 1..Len(ps) : ps[i].name = "High Volume"

\* The sentiment of the snapshot's summary, NoStr when there is none.
SentimentOf(snapshot) == IF snapshot = NULL THEN NoStr ELSE snapshot.summary.sentiment

LongRule(ps, snapshot) ==
  \/ Contains(ps, "bullish", "strong")
  \/ Contains(ps, "bullish", "medium") /\ VolumeConfirmed(ps)
  \/ Contains(ps, "bullish", "medium") /\ SentimentOf(snapshot) = "BULLISH"

ShortRule(ps, snapshot) ==
  \/ Contains(ps, "bearish", "strong")
  \/ Contains(ps, "bearish", "medium") /\ VolumeConfirmed(ps)
  \/ Contains(ps, "bearish", "medium") /\ SentimentOf(snapshot) = "BEARISH"

Decided == {key \in Keys : decisions[key] # NULL}

\* C17 as stated: the decision is LONG exactly when the patterns hold a strong
\* bullish pattern, or a medium bullish one with 'High Volume', or a medium
\* bullish one with a BULLISH indicator summary.
C17_LongExactly ==
  \A key \in Decided :
    decisions[key].action = "LONG" <=> LongRule(patterns[key], indicators[key])

\* C18 as stated: the decision is SHORT exactly when the patterns hold a strong
\* bearish pattern, or a medium bearish one with 'High Volume', or a medium
\* bearish one with a BEARISH indicator summary.
C18_ShortExactly ==
  \A key \in Decided :
    decisions[key].action = "SHORT" <=> ShortRule(patterns[key], indicators[key])

\* C18: the decision is SHORT exactly when it is not LONG and the patterns hold
\* a strong bearish pattern, or a medium bearish one with 'High Volume', or a
\* medium bearish one with a BEARISH indicator summary: LONG is tested first.
C18_ShortUnlessLong ==
  \A key \in Decided :
    /\ decisions[key].action = "SHORT" => ShortRule(patterns[key], indicators[key])
    /\ ShortRule(patterns[key], indicators[key]) => decisions[key].action \in {"LONG", "SHORT"}

\* A SHORT decision from a medium bearish pattern and a BEARISH summary alone.
C18_Witness ==
  \E key \in Decided :
    /\ decisions[key].action = "SHORT"
    /\ ~Contains(patterns[key], "bearish", "strong")
    /\ ~VolumeConfirmed(patterns[key])
    /\ SentimentOf(indicators[key]) = "BEARISH"

RoundsTo(reported, exact, unit) ==
  LET diff == reported * unit - 100 * exact
  IN 2 * diff <= unit /\ -2 * diff <= unit

\* The price levels of a trade in direction sign (1: LONG, -1: SHORT) on the
\* candle, in 1/8000: the entry 1% of the range beyond the near extreme, the
\* stop 1.5 x ATR (15% of the range without ATR) beyond the far extreme, the
\* targets 1.5, 2.5 and 4 times the risk beyond the entry.
ExpectedLevels(candle, snapshot, sign) ==
  LET range == candle.h - candle.l
      near == IF sign = 1 THEN candle.h ELSE candle.l
      far == IF sign = 1 THEN candle.l ELSE candle.h
      pad == IF snapshot # NULL /\ snapshot.atr # NULL
             THEN 12 * snapshot.atr.atr ELSE 1200 * range
      entry == 8000 * near + sign * 80 * range
      stopLoss == 8000 * far - sign * pad
      risk == IF entry >= stopLoss THEN entry - stopLoss ELSE stopLoss - entry
  IN [entry |-> entry, stopLoss |-> stopLoss,
      target1 |-> entry + sign * ((3 * risk) \div 2),
      target2 |-> entry + sign * ((5 * risk) \div 2),
      target3 |-> entry + sign * 4 * risk]

Trades == {key \in Decided : decisions[key].action \in {"LONG", "SHORT"}}

\* C20: the entry, stopLoss and target1/2/3 of every LONG and SHORT decision
\* are the 2-decimal roundings of high + 1% of the range (low - 1% for SHORT),
\* of low - 1.5 x ATR or low - 15% of the range (mirrored above the high for
\* SHORT), and of entry +/- 1.5, 2.5 and 4 times the risk |entry - stopLoss|.
C20_PriceLevels ==
  \A key \in Trades :
    LET decision == decisions[key]
        expected == ExpectedLevels(LatestCandle(candles[key]), indicators[key],
                                   IF decision.action = "LONG" THEN 1 ELSE -1)
    IN /\ RoundsTo(decision.entry, expected.entry, 8000)
       /\ RoundsTo(decision.stopLoss, expected.stopLoss, 8000)
       /\ RoundsTo(decision.target1, expected.target1, 8000)
       /\ RoundsTo(decision.target2, expected.target2, 8000)
       /\ RoundsTo(decision.target3, expected.target3, 8000)

\* A LONG decision with an ATR stop on a candle whose range is 13, so that the
\* entry is not a multiple of a tenth.
C20_Witness ==
  \E key \in Trades :
    /\ decisions[key].action = "LONG"
    /\ indicators[key] # NULL /\ indicators[key].atr # NULL
    /\ LatestCandle(candles[key]).h - LatestCandle(candles[key]).l = 13

\* The direction of a trade and the summary sentiment that contradicts it.
DirectionOf(action) == IF action = "LONG" THEN "bullish" ELSE "bearish"

Contradicts(action, sentiment) ==
  \/ action = "LONG" /\ sentiment = "BEARISH"
  \/ action = "SHORT" /\ sentiment = "BULLISH"

\* The confidence the patterns and the volume confirmation alone give a trade
\* in direction type.
PatternConfidence(ps, type) ==
  IF Contains(ps, type, "strong") /\ VolumeConfirmed(ps) THEN "high"
  ELSE IF Contains(ps, type, "strong") THEN "medium"
  ELSE IF Contains(ps, type, "medium") /\ VolumeConfirmed(ps) THEN "medium"
  ELSE "low"

OneLevelBelow(confidence) == IF confidence = "high" THEN "medium" ELSE "low"

\* The reasoning counts the indicators as agreeing with the trade.
CountedAsAgreement(decision) ==
  \E i \in 1..Len(decision.reasoning) :
    decision.reasoning[i] = <<"Indicators align with signal", DirectionOf(decision.action)>>

\* C21: a LONG decision under a BEARISH summary, and a SHORT decision under a
\* BULLISH one, has the confidence one level below the one its patterns and
\* volume confirmation give, never 'high', and its reasoning does not count the
\* indicators as agreement.
C21_ConflictDowngrades ==
  \A key \in Trades :
    Contradicts(decisions[key].action, SentimentOf(indicators[key])) =>
      /\ decisions[key].confidence =
           OneLevelBelow(PatternConfidence(patterns[key], DirectionOf(decisions[key].action)))
      /\ decisions[key].confidence # "high"
      /\ ~CountedAsAgreement(decisions[key])

C23_PatternsOnly ==
  \A key \in Decided :
    Len(candles[key]) < 30 =>
      LET decision == decisions[key]
          candle == LatestCandle(candles[key])
      IN /\ calculateAll(candles[key]) = NULL
         /\ decision.indicatorSignals = NULL
         /\ decision.action = "LONG" <=> LongRule(patterns[key], NULL)
         /\ decision.action = "SHORT" <=>
              ~LongRule(patterns[key], NULL) /\ ShortRule(patterns[key], NULL)
         /\ \A i \in 1..Len(decision.reasoning) :
              decision.reasoning[i][1] \notin
                {"Indicators align with signal", "Indicators show conflicting signals",
                 "Indicator sentiment", "Indicators suggest bias", "RSI", "MACD crossover"}
         /\ key \in Trades =>
              /\ decision.confidence =
                   PatternConfidence(patterns[key], DirectionOf(decision.action))
              /\ RoundsTo(decision.stopLoss,
                          8000 * (IF decision.action = "LONG" THEN candle.l ELSE candle.h)
                            + (IF decision.action = "LONG" THEN -1200 ELSE 1200)
                              * (candle.h - candle.l),
                          8000)

\* A SHORT decision for a series of 29 candles.
C23_Witness ==
  \E key \in Trades : Len(candles[key]) = 29 /\ decisions[key].action = "SHORT"

-----------------------------------------------------------------------------
(***************************************************************************)
(* Properties of generateSummary                                           *)
(***************************************************************************)
\* The votes of the five indicators other than the EMA pair on the series.
OtherVotes(series) ==
  LET closes == Closes(series)
      highs == Highs(series)
      lows == Lows(series)
  IN << VoteRsi(ToNumber(RSI(closes, 14))),
        VoteMacd(MACD(closes)),
        VoteStoch(Stochastic(highs, lows, closes)),
        VoteAdx(ADX(highs, lows, closes)),
        VoteBb(BollingerBands(closes)) >>

\* The keys whose decision carries the summary of a series of 30 to 49 candles.
WithoutEma50 ==
  {key \in Decided : Len(candles[key]) \in 30..49 /\ decisions[key].indicatorSignals # NULL}

\* C24: for a series of 30 to 49 candles, on which EMA(50) is unavailable, the
\* votes of the summary are those of the five other indicators: the comparison
\* of EMA(20) with EMA(50) adds none.
C24_NoVoteWithoutEma50 ==
  \A key \in WithoutEma50 :
    /\ EMA(Closes(candles[key]), 50) = NoNum
    /\ decisions[key].indicatorSignals.summary = SummaryOfVotes(OtherVotes(candles[key]))

\* The keys whose decision carries an indicator summary.
Summarised == {key \in Decided : decisions[key].indicatorSignals # NULL}

\* C25: the sentiment of a summary is BULLISH exactly when the bullish votes
\* are more than 70% of all votes, BEARISH exactly when the bearish votes are,
\* NEUTRAL exactly when there is no vote and MIXED otherwise, and a MIXED
\* summary has a vote on each side.
C25_SentimentThresholds ==
  \A key \in Summarised :
    LET summary == decisions[key].indicatorSignals.summary
        bullish == summary.bullishSignals
        bearish == summary.bearishSignals
        total == bullish + bearish
    IN /\ summary.sentiment = "BULLISH" <=> 100 * bullish > 70 * total
       /\ summary.sentiment = "BEARISH" <=> 100 * bearish > 70 * total
       /\ summary.sentiment = "NEUTRAL" <=> total = 0
       /\ summary.sentiment = "MIXED" <=>
            total > 0 /\ 100 * bullish <= 70 * total /\ 100 * bearish <= 70 * total
       /\ summary.sentiment = "MIXED" => bullish >= 1 /\ bearish >= 1

\* A summary of two bullish votes and one bearish vote, which is MIXED.
C25_Witness ==
  \E key \in Summarised :
    /\ decisions[key].indicatorSignals.summary.bullishSignals = 2
    /\ decisions[key].indicatorSignals.summary.bearishSignals = 1
    /\ decisions[key].indicatorSignals.summary.sentiment = "MIXED"

-----------------------------------------------------------------------------
(***************************************************************************)
(* Properties of the stored analysis                                       *)
(***************************************************************************)
\* The keys whose series is long enough to be analysed.
Analysed == {key \in Decided : Len(candles[key]) >= 3}

\* The candle closes above its open, its body is more than 90% of its range
\* and each wick less than 5%.
FullRisingBody(candle) ==
  /\ candle.c > candle.o
  /\ 10 * (candle.c - candle.o) > 9 * (candle.h - candle.l)
  /\ 20 * (candle.h - candle.c) < candle.h - candle.l
  /\ 20 * (candle.o - candle.l) < candle.h - candle.l

C29_LevelsOrdered ==
  \A key \in Analysed :
    LET decision == decisions[key]
    IN /\ decision.action = "LONG" =>
            /\ decision.stopLoss < decision.entry
            /\ decision.entry < decision.target1
            /\ decision.target1 < decision.target2
            /\ decision.target2 < decision.target3
       /\ decision.action = "SHORT" =>
            /\ decision.target3 < decision.target2
            /\ decision.target2 < decision.target1
            /\ decision.target1 < decision.entry
            /\ decision.entry < decision.stopLoss
       /\ decision.action = "WAIT" =>
            /\ decision.entry = NoNum
            /\ decision.stopLoss = NoNum
            /\ decision.target1 = NoNum
            /\ decision.target2 = NoNum
            /\ decision.riskReward = NoStr

-----------------------------------------------------------------------------
(***************************************************************************)
(* Properties of the connectors, the aggregation and the handlers' frames  *)
(***************************************************************************)
\* The socket of ex is closed in this step.
Closes_(ex) == ws[ex] # "closed" /\ ws'[ex] = "closed"

\* A reconnect timer of ex is pending only while ex has no socket, so that no
\* second 'close' can set another one.
OneTimer(ex) == timer[ex] # NoNum => ws[ex] = "closed"

\* C27: the close of an exchange's socket sets the reconnect timer of that
\* exchange and leaves the sockets and timers of the other two as they are,
\* and no exchange ever has a timer pending next to a socket that can close.
C27_PerExchange ==
  [][\A ex \in Exchanges :
       /\ Closes_(ex) =>
            /\ timer'[ex] # NoNum
            /\ \A other \in Exchanges \ {ex} :
                 ws'[other] = ws[other] /\ timer'[other] = timer[other]
       /\ OneTimer(ex)
       /\ OneTimer(ex)']_vars

\* Coinbase is closed with its reconnect pending while Binance is open and
\* Kraken is still connecting, neither with a timer.
C27_Witness ==
  /\ ws["coinbase"] = "closed" /\ timer["coinbase"] # NoNum
  /\ ws["binance"] = "open" /\ timer["binance"] = NoNum
  /\ ws["kraken"] = "connecting" /\ timer["kraken"] = NoNum

\* The price part of a ticker: the aggregate, the three prices it was taken
\* from and their sources.
PricePart(ticker) ==
  <<ticker.price, ticker.binancePrice, ticker.coinbasePrice, ticker.krakenPrice,
    ticker.sources>>

\* A ticker message is sent to a client in this step.
TickerSent == \E client \in ClientIds : delivery'.last[client] = "ticker"

\* The labels of the exchanges with a positive price for d, in the order
\* Binance, Coinbase, Kraken.
PositiveSources(d) ==
  (IF exchangePrices["binance"][d] > 0 THEN <<"Binance">> ELSE <<>>)
  \o (IF exchangePrices["coinbase"][d] > 0 THEN <<"Coinbase">> ELSE <<>>)
  \o (IF exchangePrices["kraken"][d] > 0 THEN <<"Kraken">> ELSE <<>>)

\* C28 as stated: a ticker is changed, and broadcast, only in a step after
\* which the aggregate price of its instrument is positive.
C28_ChangedOnlyWhenPositive ==
  [][/\ \A d \in DisplayNames :
          tickers'[d] # tickers[d] => Cardinality(PositiveAt(d)') > 0
     /\ TickerSent => \E d \in DisplayNames : Cardinality(PositiveAt(d)') > 0]_vars

\* C28: the price part of a ticker is changed, and the ticker broadcast, only
\* in a step after which the aggregate price is positive; the price is never
\* NaN, is 0 only as long as it was never set, and a step that changes the
\* price part sets the price to the mean of the positive prices of that moment
\* and the sources to their exchanges, of which there is at least one.  (The
\* 24 h statistics are written by every Binance ticker.)
C28_PricePartOnlyWhenPositive ==
  [][/\ \A d \in DisplayNames :
          LET n == Cardinality(PositiveAt(d)')
          IN /\ PricePart(tickers'[d]) # PricePart(tickers[d]) =>
                  /\ n > 0
                  /\ 2 * (n * tickers'[d].price - PositiveSum(d)') <= n
                  /\ 2 * (n * tickers'[d].price - PositiveSum(d)') > -n
                  /\ tickers'[d].sources = PositiveSources(d)'
             /\ tickers'[d].price # NaN
             /\ tickers'[d].price >= 0
             /\ tickers[d].price > 0 => tickers'[d].price > 0
             /\ tickers'[d].price > 0 <=> Len(tickers'[d].sources) > 0
     /\ TickerSent => \E d \in DisplayNames : Cardinality(PositiveAt(d)') > 0]_vars

\* The ticker keeps the price 10 and the source Binance although Binance has
\* since reported a price that is no number and no exchange has a positive
\* price, and a client has received a ticker.
C28_Witness ==
  \E d \in DisplayNames :
    /\ tickers[d].price = 10
    /\ tickers[d].sources = <<"Binance">>
    /\ PositiveAt(d) = {}
    /\ \E client \in ClientIds : Len(sent[client]) = 2 /\ sent[client][2] = "ticker"

\* The stored analysis of key: its series, patterns and decision.
Stored(key) == <<candles[key], patterns[key], decisions[key]>>

\* The event handled last is a kline event for the pair of key.
KlineFor(event, key) ==
  /\ event # NoEvent
  /\ INSTRUMENT_DISPLAY(event.symbol) = key[1]
  /\ event.timeframe = key[2]

\* C30: the series, patterns and decision of a key change only in a kline
\* event for that key's instrument and timeframe; a kline event changes no
\* indicators and no ticker state, and for an instrument or a timeframe that
\* is not configured it changes nothing of the store; a step that changes
\* ticker state (a ticker event) changes no series, patterns, decision or
\* indicators.
C30_Frames ==
  [][/\ \A key \in Keys : Stored(key)' # Stored(key) => KlineFor(handled', key)
     /\ handled' # NoEvent => UNCHANGED <<indicators, exchangePrices, tickers>>
     /\ (handled' # NoEvent /\ ~ \E key \in Keys : KlineFor(handled', key)) =>
          UNCHANGED <<candles, patterns, decisions, indicators>>
     /\ aggVars' # aggVars => UNCHANGED <<candles, patterns, decisions, indicators>>]_vars

\* A kline event for ETH_USDT 1m has been handled while BTC_USDT 1m holds a
\* decision, BTC_USDT 5m a series, and the ticker of BTC_USDT a price.
C30_Witness ==
  /\ handled # NoEvent
  /\ handled.symbol = "ETHUSDT"
  /\ handled.timeframe = "1m"
  /\ candles[<<"ETH_USDT", "1m">>] # <<>>
  /\ decisions[<<"BTC_USDT", "1m">>] # NULL
  /\ candles[<<"BTC_USDT", "5m">>] # <<>>
  /\ tickers["BTC_USDT"].price > 0

=============================================================================
